---- MODULE Spec2Model ----
(***************************************************************************)
(* The decision core of clawbots: drive pressures, persona selection with  *)
(* hysteresis and cooldown, conversation turn taking and emergent culture. *)
(*                                                                         *)
(* Numbers.  The Python code computes on floats; the model computes on     *)
(* exact fixed-point integers:                                             *)
(*   - pressures, amounts, energy, strengths, weights: hundredths (Scale); *)
(*   - minutes and hours: whole numbers; clock readings: whole seconds;    *)
(*   - persona scores: units of 1/360000 (ScoreUnit), cooldown penalties:  *)
(*     units of 1/3600, so that time_since / 3600 is exact for every whole *)
(*     second.                                                             *)
(* Floating-point rounding is not modelled.                                *)
(***************************************************************************)
EXTENDS Integers, Sequences, FiniteSets, TLC

VARIABLES
    now,              \* the reading of time.time() / datetime.now(), seconds
    dm,               \* a DriveManager: drives, state.pressures, state.last_satisfied
    sel,              \* a PersonaSelector: personas, current, cooldowns, switch_count
    astate,           \* an Agent's AgentState: energy, boredom, social_tension
    records,          \* CultureEngine.records: record id -> CultureRecord
    behavior_counts,  \* CultureEngine.behavior_counts: key -> agent_id -> count
    conversations,    \* ConversationOrchestrator.conversations: location -> state
    world,            \* a World: agents, locations, tick_count
    granted,          \* the (agent_id, location) pairs of the agents that hold
                      \* a True answer of should_respond and have not spoken since
    last,             \* the last call made: its name, arguments and result
    steps             \* the number of calls made so far

vars == <<now, dm, sel, astate, records, behavior_counts, conversations, world,
          granted, last, steps>>

\* ------------------------------------------------------------------ bounds

\* the longest sequence of steps (calls, passages of time) explored
MaxSteps == 4
\* the longest sequence of steps explored on a conversation orchestrator
MaxConversationSteps == 3
\* the longest run explored, seconds
MaxTime == 3700
\* the longest sequence of steps explored on agents that take turns
MaxTurnSteps == 6

\* ------------------------------------------------------------- fixed point

\* 1.0 in hundredths
Scale == 100

Max(a, b) == IF a >= b THEN a ELSE b
Min(a, b) == IF a <= b THEN a ELSE b
Abs(a) == IF a >= 0 THEN a ELSE 0 - a

\* dict.get(k, default)
Get(f, k, default) == IF k \in DOMAIN f THEN f[k] ELSE default
\* d[k] = v
Put(f, k, v) == [x \in DOMAIN f \cup {k} |-> IF x = k THEN v ELSE f[x]]
\* the empty dict
EmptyMap == [x \in {} |-> 0]

\* Optional[float]: <<>> is None, <<v>> is the value v
None == <<>>
Some(v) == <<v>>
\* Python truthiness of an Optional[float]: None and 0.0 are falsy
Truthy(opt) == opt # None /\ opt[1] # 0

\* --------------------------------------------------------------- the clock

\* the clock reading when a run starts: seconds since the epoch, any value far
\* above an hour
StartTime == 1000 * 1000

\* time passes between two calls: the clock advances by one of `by` seconds,
\* in a run of at most `bound` steps
AdvanceBy(by, bound) ==
    /\ steps < bound
    /\ \E dt \in by :
          /\ now + dt <= StartTime + MaxTime
          /\ now' = now + dt
    /\ last' = [op |-> "advance"]
    /\ steps' = steps + 1
    /\ UNCHANGED <<granted, dm, sel, astate, records, behavior_counts, conversations, world>>

\* ------------------------------------------------------------ drive model

\* @dataclass Drive; decay_rate in hundredths per minute
Drive(type, base_weight, decay_rate, satisfy_amount) ==
    [type |-> type, base_weight |-> base_weight,
     decay_rate |-> decay_rate, satisfy_amount |-> satisfy_amount]

\* Agent._default_drives
DefaultDrives ==
    [k \in {"social", "curiosity", "teaching", "rest"} |->
        CASE k = "social"    -> Drive("social", 50, 1, 30)
          [] k = "curiosity" -> Drive("curiosity", 40, 1, 30)
          [] k = "teaching"  -> Drive("teaching", 60, 1, 30)
          [] k = "rest"      -> Drive("rest", 30, 1, 30)]

\* a caller's configuration: other rates and amounts, and a key ("buddy")
\* that is not the value of its drive's type
CustomDrives ==
    [k \in {"social", "buddy"} |->
        CASE k = "social" -> Drive("social", 50, 3, 0)
          [] k = "buddy"  -> Drive("belonging", 50, 2, 45)]

\* a clamp that forgets the ceiling
ClampPressureNoCeiling(x) == Max(0, x)

\* DriveState.update_pressure, the clamp
ClampPressure(x) == Max(0, Min(Scale, x))

\* DriveState.update_pressure
UpdatePressure(pressures, drive_type, delta) ==
    LET current == Get(pressures, drive_type, 50)
    IN  Put(pressures, drive_type, ClampPressure(current + delta))

\* DriveManager.__init__
NewDriveManager(drives_config, t) ==
    LET types == {drives_config[k].type : k \in DOMAIN drives_config}
    IN  [drives         |-> drives_config,
         pressures      |-> [d \in types |-> 50],
         last_satisfied |-> [d \in types |-> t]]

\* the loop of DriveManager.tick over self.drives.items()
RECURSIVE TickLoop(_, _, _, _)
TickLoop(keys, drives, pressures, elapsed_minutes) ==
    IF keys = {} THEN pressures
    ELSE LET drive_type == CHOOSE k \in keys : TRUE
             increase   == drives[drive_type].decay_rate * elapsed_minutes
         IN  TickLoop(keys \ {drive_type}, drives,
                      UpdatePressure(pressures, drive_type, increase),
                      elapsed_minutes)

\* a tick that forgets the elapsed time: one minute's increase whatever it is
DriveManagerTickOneMinute(m, elapsed_minutes) ==
    [m EXCEPT !.pressures = TickLoop(DOMAIN m.drives, m.drives, m.pressures, 1)]

\* DriveManager.tick
DriveManagerTick(m, elapsed_minutes) ==
    [m EXCEPT !.pressures =
        TickLoop(DOMAIN m.drives, m.drives, m.pressures, elapsed_minutes)]

\* DriveManager.satisfy: the amount taken off
SatisfyAmt(m, drive_type, amount) ==
    IF Truthy(amount) THEN amount[1] ELSE m.drives[drive_type].satisfy_amount

\* a satisfy without the test that the drive is configured
DriveManagerSatisfyUnconfigured(m, drive_type, amount, t) ==
    [m EXCEPT
        !.pressures = UpdatePressure(m.pressures, drive_type,
                                     0 - (IF Truthy(amount) THEN amount[1] ELSE 30)),
        !.last_satisfied = Put(m.last_satisfied, drive_type, t)]

\* DriveManager.satisfy
DriveManagerSatisfy(m, drive_type, amount, t) ==
    IF drive_type \in DOMAIN m.drives
    THEN [m EXCEPT
            !.pressures = UpdatePressure(m.pressures, drive_type,
                                         0 - SatisfyAmt(m, drive_type, amount)),
            !.last_satisfied = Put(m.last_satisfied, drive_type, t)]
    ELSE m

\* DriveState.get_dominant_drives
GetDominantDrives(pressures, threshold) ==
    {d \in DOMAIN pressures : pressures[d] >= threshold}

\* DriveManager.get_action_candidates
GetActionCandidates(m) == GetDominantDrives(m.pressures, 60)

\* the inputs of the drive model's calls
ElapsedInputs == {0, 7, 50}
DriveKindInputs == {"social", "buddy", "play"}
AmountInputs == {None, Some(0), Some(20), Some(130), Some(0 - 40)}

\* a call of DriveManager.tick
DMTick ==
    /\ steps < MaxSteps
    /\ \E e \in ElapsedInputs :
          /\ dm' = DriveManagerTick(dm, e)
          /\ last' = [op |-> "dm_tick", elapsed |-> e]
    /\ steps' = steps + 1
    /\ UNCHANGED <<granted, now, sel, astate, records, behavior_counts, conversations, world>>

\* a call of DriveManager.satisfy
DMSatisfy ==
    /\ steps < MaxSteps
    /\ \E d \in DriveKindInputs, a \in AmountInputs :
          /\ dm' = DriveManagerSatisfy(dm, d, a, now)
          /\ last' = [op |-> "dm_satisfy", drive |-> d, amount |-> a]
    /\ steps' = steps + 1
    /\ UNCHANGED <<granted, now, sel, astate, records, behavior_counts, conversations, world>>


\* ---------------------------------------------------------- persona catalog

\* Persona with its Archetype.role, Expression.verbosity, preferred_actions
\* and compatibility['drives'] (weights in hundredths)
Persona(id, role, verbosity, preferred_actions, drive_mods) ==
    [id |-> id, role |-> role, verbosity |-> verbosity,
     preferred_actions |-> preferred_actions, drive_mods |-> drive_mods]

\* the catalog of demo.py, with the drive compatibilities of the temple_guide
\* and the trickster
Catalog ==
    [k \in {"temple_guide", "trickster", "observer"} |->
        CASE k = "temple_guide" ->
                Persona(k, "guide", "medium",
                        {"greeting", "teaching", "explaining"}, "teaching" :> 80)
          [] k = "trickster" ->
                Persona(k, "entertainer", "high",
                        {"joking", "teasing", "storytelling"}, "teaching" :> (0 - 50))
          [] k = "observer" ->
                Persona(k, "watcher", "very_low",
                        {"watching", "reflecting", "brief_insight"}, EmptyMap)]

\* the catalog dict's iteration (insertion) order
CatalogOrder == <<"temple_guide", "trickster", "observer">>

\* Persona.prefers_action
PrefersAction(persona, action) == action \in persona.preferred_actions

\* x in a list
InList(x, list) == \E i \in 1..Len(list) : list[i] = x

\* ---------------------------------------------------------- persona scoring

\* a score of 1.0, in score units of 1/360000
ScoreUnit == 360000

RECURSIVE SumOver(_, _, _)
\* sum(mods.get(d, 0.0) * pressure for d, pressure in drives.items()), in 1/10000
SumOver(keys, drive_mods, drives) ==
    IF keys = {} THEN 0
    ELSE LET d == CHOOSE k \in keys : TRUE
         IN  Get(drive_mods, d, 0) * drives[d] + SumOver(keys \ {d}, drive_mods, drives)

\* verbosity_map.get(verbosity, 0.6)
VerbosityValue(verbosity) ==
    CASE verbosity = "very_low" -> 10
      [] verbosity = "low"      -> 30
      [] verbosity = "medium"   -> 60
      [] verbosity = "high"     -> 90
      [] OTHER                  -> 60

\* f'persona_{persona.id}_affinity'
AffinityKey(id) == "persona_" \o id \o "_affinity"

\* score_persona: the components; drive_compat in 1/10000, cooldown in 1/3600,
\* the others in hundredths
ScoreComponents(persona, drives, state, env, culture, cooldown_penalty) ==
    LET drive_score   == SumOver(DOMAIN drives, persona.drive_mods, drives)
        energy        == Get(state, "energy", 50)
        v             == VerbosityValue(persona.verbosity)
        location_type == Get(env, "location_type", "")
        env_score     ==
            IF location_type = "temple" /\ persona.role \in {"guide", "monk"} THEN 80
            ELSE IF location_type = "plaza" /\ persona.role \in {"debater", "merchant"}
                 THEN 80
                 ELSE 50
    IN  [drive_compat |-> Max(0 - Scale * Scale, Min(Scale * Scale, drive_score)),
         state_fit    |-> Scale - Abs(energy - v),
         env_fit      |-> env_score,
         culture_fit  |-> Get(culture, AffinityKey(persona.id), 50),
         cooldown     |-> 0 - cooldown_penalty]

\* score_persona: the weighted total, in score units
WeightedTotal(c) ==
    9 * c.drive_compat + 720 * c.state_fit + 720 * c.env_fit
    + 720 * c.culture_fit + 15 * c.cooldown

\* score_persona
ScorePersona(persona, drives, state, env, culture, cooldown_penalty) ==
    LET c == ScoreComponents(persona, drives, state, env, culture, cooldown_penalty)
    IN  [score |-> WeightedTotal(c), components |-> c]

\* --------------------------------------------------------- persona selector

\* the personas kept by PersonaSelector.__init__: the catalog's ids that are
\* in `allowed`, in the catalog's order
RECURSIVE FilterAllowed(_, _)
FilterAllowed(order, allowed) ==
    IF order = <<>> THEN <<>>
    ELSE (IF InList(Head(order), allowed) THEN <<Head(order)>> ELSE <<>>)
         \o FilterAllowed(Tail(order), allowed)

\* PersonaSelector.__init__
NewSelector(allowed) ==
    [personas |-> FilterAllowed(CatalogOrder, allowed), current |-> None,
     cooldowns |-> EmptyMap, switch_count |-> 0]

\* a cooldown penalty of up to 3.0, outweighing the hysteresis margin
CooldownPenaltyHeavy(time_since) == 10 * Max(0, 1080 - time_since)

\* the cooldown penalty of select, in 1/3600:
\* max(0, 0.3 - time_since / 3600)
CooldownPenalty(time_since) == Max(0, 1080 - time_since)

\* select: the candidate of one persona
Candidate(s, pid, drives, state, env, culture, current_time) ==
    LET last_switch == Get(s.cooldowns, pid, 0)
        time_since  == current_time - last_switch
        scored      == ScorePersona(Catalog[pid], drives, state, env, culture,
                                    CooldownPenalty(time_since))
    IN  [pid |-> pid, score |-> scored.score, components |-> scored.components]

\* candidates.sort(key=score, reverse=True): a stable sort, so candidates of
\* equal score keep their order
RECURSIVE InsertDescending(_, _)
InsertDescending(sorted, c) ==
    IF sorted = <<>> THEN <<c>>
    ELSE IF Head(sorted).score >= c.score
         THEN <<Head(sorted)>> \o InsertDescending(Tail(sorted), c)
         ELSE <<c>> \o sorted

RECURSIVE SortDescending(_)
SortDescending(candidates) ==
    IF candidates = <<>> THEN <<>>
    ELSE InsertDescending(SortDescending(SubSeq(candidates, 1, Len(candidates) - 1)),
                          candidates[Len(candidates)])

\* next((s for p, s, _ in candidates if p == self.current), 0)
CurrentScore(candidates, current) ==
    IF \E i \in 1..Len(candidates) : candidates[i].pid = current
    THEN candidates[CHOOSE i \in 1..Len(candidates) : candidates[i].pid = current].score
    ELSE 0

\* self.current is truthy: not None and not the empty string
CurrentSet(current) == current # None /\ current[1] # ""

\* the hysteresis margin of select, 0.15 in score units
HysteresisMargin == 54000

\* a select without hysteresis: any better persona wins
KeepsCurrentNever(best_score, current_score) == best_score - current_score < 0

\* a select whose margin is 0.5
KeepsCurrentWideMargin(best_score, current_score) ==
    best_score - current_score < 5 * (ScoreUnit \div 10)

\* select keeps the current persona: best_score - current_score < 0.15
KeepsCurrent(best_score, current_score) == best_score - current_score < HysteresisMargin

\* a select that ranks the later persona first among equal scores
SelectTiesToLast(s, drives, state, env, culture, current_time) ==
    LET n == Len(s.personas)
        candidates ==
            SortDescending([i \in 1..n |->
                Candidate(s, s.personas[n + 1 - i], drives, state, env, culture,
                          current_time)])
    IN  IF candidates = <<>>
        THEN [raised |-> "IndexError"]
        ELSE LET best == candidates[1]
                 current_score == CurrentScore(candidates, s.current[1])
             IN  IF /\ CurrentSet(s.current)
                    /\ s.current[1] # best.pid
                    /\ KeepsCurrent(best.score, current_score)
                 THEN [raised |-> "", pid |-> s.current[1], score |-> current_score,
                       components |-> EmptyMap]
                 ELSE [raised |-> "", pid |-> best.pid, score |-> best.score,
                       components |-> best.components]

\* PersonaSelector.select; candidates[0] of an empty list raises IndexError
Select(s, drives, state, env, culture, current_time) ==
    LET candidates ==
            SortDescending([i \in 1..Len(s.personas) |->
                Candidate(s, s.personas[i], drives, state, env, culture, current_time)])
    IN  IF candidates = <<>>
        THEN [raised |-> "IndexError"]
        ELSE LET best == candidates[1]
                 current_score == CurrentScore(candidates, s.current[1])
             IN  IF /\ CurrentSet(s.current)
                    /\ s.current[1] # best.pid
                    /\ KeepsCurrent(best.score, current_score)
                 THEN [raised |-> "", pid |-> s.current[1], score |-> current_score,
                       components |-> EmptyMap]
                 ELSE [raised |-> "", pid |-> best.pid, score |-> best.score,
                       components |-> best.components]

\* a switch that forgets to count
SwitchToKeepsCount(s, persona_id, current_time) ==
    IF Some(persona_id) # s.current
    THEN [s EXCEPT !.cooldowns = Put(s.cooldowns, persona_id, current_time),
                   !.current = Some(persona_id)]
    ELSE s

\* PersonaSelector.switch_to
SwitchTo(s, persona_id, current_time) ==
    IF Some(persona_id) # s.current
    THEN [s EXCEPT !.cooldowns = Put(s.cooldowns, persona_id, current_time),
                   !.current = Some(persona_id),
                   !.switch_count = s.switch_count + 1]
    ELSE s

\* -------------------------------------------------------- agent coordinator

\* Soul: the fields Agent.__init__ reads
Soul(default_persona, allowed_personas) ==
    [default_persona |-> default_persona, allowed_personas |-> allowed_personas]

\* AgentState()
NewAgentState == [energy |-> 70, boredom |-> 0, social_tension |-> 0]

\* Agent.__init__: the selector, with current assigned from the soul
AgentSelector(soul) ==
    [NewSelector(soul.allowed_personas) EXCEPT !.current = Some(soul.default_persona)]

\* a tick that forgets the floor of the energy
AgentStateTickNoFloor(a, elapsed_minutes) ==
    [a EXCEPT !.energy = a.energy - 1 * elapsed_minutes,
              !.boredom = Min(Scale, a.boredom + 2 * elapsed_minutes)]

\* a tick that counts boredom from zero each time
AgentStateTickFromZero(a, elapsed_minutes) ==
    [a EXCEPT !.energy = Max(0, a.energy - 1 * elapsed_minutes),
              !.boredom = Min(Scale, 2 * elapsed_minutes)]

\* Agent.tick: the AgentState afterwards
AgentStateTick(a, elapsed_minutes) ==
    [a EXCEPT !.energy = Max(0, a.energy - 1 * elapsed_minutes),
              !.boredom = Min(Scale, a.boredom + 2 * elapsed_minutes)]

\* Agent.perceive: the AgentState afterwards
AgentStatePerceive(a, event) ==
    IF Get(event, "type", "") = "chat"
    THEN [a EXCEPT !.boredom = Max(0, a.boredom - 10)]
    ELSE a

\* a perceive that satisfies the social drive by its configured amount
DriveManagerPerceiveConfiguredAmount(m, event, t) ==
    IF Get(event, "type", "") = "chat"
    THEN DriveManagerSatisfy(m, "social", None, t)
    ELSE m

\* Agent.perceive: the drive manager afterwards
DriveManagerPerceive(m, event, t) ==
    IF Get(event, "type", "") = "chat"
    THEN DriveManagerSatisfy(m, "social", Some(20), t)
    ELSE m

\* Agent.decide_action: the selector after the switch, if any
SelectorDecide(s, picked, t) ==
    IF Some(picked.pid) # s.current THEN SwitchTo(s, picked.pid, t) ELSE s

\* an action type that defaults to speak
ActionTypeSpeakByDefault(s, m, a) ==
    IF a.boredom > 70 /\ "curiosity" \in GetActionCandidates(m) THEN "move"
    ELSE "speak"

\* an action type whose speak rule also fires on a dominant teaching drive
ActionTypeTeachingSpeaks(s, m, a) ==
    LET active_drives == GetActionCandidates(m)
        known   == s.current # None /\ InList(s.current[1], s.personas)
        speak   == /\ ("social" \in active_drives \/ "teaching" \in active_drives)
                   /\ known
                   /\ \/ PrefersAction(Catalog[s.current[1]], "greeting")
                      \/ PrefersAction(Catalog[s.current[1]], "teaching")
        move    == a.boredom > 70 /\ "curiosity" \in active_drives
    IN  IF move THEN "move" ELSE IF speak THEN "speak" ELSE "observe"

\* an action type whose speak rule is tested last, and so wins
ActionTypeSpeakWins(s, m, a) ==
    LET active_drives == GetActionCandidates(m)
        known   == s.current # None /\ InList(s.current[1], s.personas)
        speak   == /\ "social" \in active_drives
                   /\ known
                   /\ \/ PrefersAction(Catalog[s.current[1]], "greeting")
                      \/ PrefersAction(Catalog[s.current[1]], "teaching")
        move    == a.boredom > 70 /\ "curiosity" \in active_drives
    IN  IF speak THEN "speak" ELSE IF move THEN "move" ELSE "observe"

\* Agent.decide_action: the action type
ActionType(s, m, a) ==
    LET active_drives == GetActionCandidates(m)
        known   == s.current # None /\ InList(s.current[1], s.personas)
        speak   == /\ "social" \in active_drives
                   /\ known
                   /\ \/ PrefersAction(Catalog[s.current[1]], "greeting")
                      \/ PrefersAction(Catalog[s.current[1]], "teaching")
        move    == a.boredom > 70 /\ "curiosity" \in active_drives
    IN  IF move THEN "move" ELSE IF speak THEN "speak" ELSE "observe"

\* the inputs of the agent's calls
Souls ==
    {Soul("temple_guide", <<"temple_guide", "observer">>),
     Soul("trickster", <<"trickster", "temple_guide">>),
     Soul("trickster", <<"temple_guide", "observer">>),
     Soul("observer", <<>>),
     Soul("sage", <<"sage">>),
     Soul("sage", <<"sage", "observer">>)}
AgentElapsedInputs == {0, 10, 40}
EventInputs == {"type" :> "chat", "type" :> "arrival", EmptyMap}
AgentEnvInputs ==
    {EmptyMap, "location_type" :> "temple",
     "culture" :> (AffinityKey("observer") :> 100)}

\* a call of Agent.tick
AgentTick ==
    /\ steps < MaxSteps
    /\ \E e \in AgentElapsedInputs :
          /\ dm' = DriveManagerTick(dm, e)
          /\ astate' = AgentStateTick(astate, e)
          /\ last' = [op |-> "agent_tick", elapsed |-> e]
    /\ steps' = steps + 1
    /\ UNCHANGED <<granted, now, sel, records, behavior_counts, conversations, world>>

\* a call of Agent.perceive
AgentPerceive ==
    /\ steps < MaxSteps
    /\ \E event \in EventInputs :
          /\ astate' = AgentStatePerceive(astate, event)
          /\ dm' = DriveManagerPerceive(dm, event, now)
          /\ last' = [op |-> "perceive", event |-> event]
    /\ steps' = steps + 1
    /\ UNCHANGED <<granted, now, sel, records, behavior_counts, conversations, world>>

\* a call of Agent.decide_action; the clock is read once for select and once
\* more for switch_to
AgentDecideAction ==
    /\ steps < MaxSteps
    /\ \E env \in AgentEnvInputs, t2 \in {now, now + 1} :
          LET state   == [k \in {"energy", "boredom", "social_tension"} |-> astate[k]]
              culture == Get(env, "culture", EmptyMap)
              picked  == Select(sel, dm.pressures, state, env, culture, now)
          IN  IF picked.raised # ""
              THEN /\ t2 = now
                   /\ last' = [op |-> "decide_action", env |-> env,
                               raised |-> picked.raised]
                   /\ UNCHANGED <<granted, now, sel, world>>
              ELSE /\ (Some(picked.pid) = sel.current => t2 = now)
                   /\ sel' = SelectorDecide(sel, picked, t2)
                   /\ now' = t2
                   /\ last' = [op |-> "decide_action", env |-> env, raised |-> "",
                               picked |-> picked.pid,
                               action |-> [persona |-> sel'.current,
                                           type |-> ActionType(sel', dm, astate),
                                           drives |-> GetActionCandidates(dm)]]
    /\ steps' = steps + 1
    /\ UNCHANGED <<granted, dm, astate, records, behavior_counts, conversations, world>>

\* a call of the agent's PersonaSelector.select with the agent's own drives
\* and state, outside decide_action
AgentSelect ==
    /\ steps < MaxSteps
    /\ \E env \in AgentEnvInputs :
          LET state   == [k \in {"energy", "boredom", "social_tension"} |-> astate[k]]
              culture == Get(env, "culture", EmptyMap)
          IN  last' = [op |-> "select", env |-> env,
                       result |-> Select(sel, dm.pressures, state, env, culture, now)]
    /\ steps' = steps + 1
    /\ UNCHANGED <<granted, now, dm, sel, astate, records, behavior_counts, conversations, world>>

\* time passes: up to the end of the cooldown, or of the hour
AdvanceAgent == AdvanceBy({1079, 2520}, MaxSteps)

\* World.__init__: no agents, no locations, no events; order is the
\* iteration (insertion) order of the agents dict
NewWorld ==
    [agents |-> EmptyMap, order |-> <<>>, locations |-> EmptyMap,
     event_log |-> <<>>, tick_count |-> 0]

\* Agent.__init__ with the catalog and the default drives
InitAgent ==
    /\ now = StartTime
    /\ dm = NewDriveManager(DefaultDrives, StartTime)
    /\ \E soul \in Souls : sel = AgentSelector(soul)
    /\ astate = NewAgentState
    /\ records = EmptyMap
    /\ behavior_counts = EmptyMap
    /\ conversations = EmptyMap
    /\ world = NewWorld
    /\ granted = {}
    /\ last = [op |-> "init"]
    /\ steps = 0

NextAgent ==
    AgentTick \/ AgentPerceive \/ AgentDecideAction \/ AgentSelect \/ AdvanceAgent

SpecAgent == InitAgent /\ [][NextAgent]_vars

\* -------------------------------------- decide_action, time and again

\* the souls of the agents that decide again and again
RepeatSouls ==
    {Soul("temple_guide", <<"temple_guide", "observer">>),
     Soul("trickster", <<"trickster", "temple_guide">>),
     Soul("observer", <<"temple_guide", "trickster", "observer">>),
     Soul("trickster", <<"temple_guide", "observer">>)}

\* the agent's selector when the calls begin: as Agent.__init__ left it, or
\* switched to another of its personas 500 s before
RepeatSelectors(soul) ==
    {AgentSelector(soul)}
    \cup {SwitchTo(AgentSelector(soul), soul.allowed_personas[i], StartTime - 500) :
              i \in 1..Len(soul.allowed_personas)}

\* a call of Agent.decide_action with the environment of the run; the clock is
\* read once for select and once more for switch_to
DecideAgain ==
    /\ steps < MaxSteps
    /\ \E t2 \in {now, now + 1} :
          LET state   == [k \in {"energy", "boredom", "social_tension"} |-> astate[k]]
              culture == Get(last.env, "culture", EmptyMap)
              picked  == Select(sel, dm.pressures, state, last.env, culture, now)
          IN  /\ picked.raised = ""
              /\ (Some(picked.pid) = sel.current => t2 = now)
              /\ sel' = SelectorDecide(sel, picked, t2)
              /\ now' = t2
              /\ last' = [op |-> "decide_action", env |-> last.env, n |-> last.n + 1,
                          from |-> sel.current, picked |-> picked.pid,
                          switched |-> Some(picked.pid) # sel.current]
    /\ steps' = steps + 1
    /\ UNCHANGED <<granted, dm, astate, records, behavior_counts, conversations, world>>

\* time passes between two calls of decide_action, and nothing else happens
TimePasses ==
    /\ steps < MaxSteps
    /\ \E dt \in {1, 1079, 2520} :
          /\ now + dt <= StartTime + MaxTime
          /\ now' = now + dt
    /\ steps' = steps + 1
    /\ UNCHANGED <<granted, dm, sel, astate, records, behavior_counts, conversations, world,
                   last>>

\* an agent after a tick, and a chat or none; from here on its drives and
\* state stay as they are
InitRepeat ==
    /\ now = StartTime
    /\ \E e \in AgentElapsedInputs, event \in EventInputs :
          /\ dm = DriveManagerPerceive(
                      DriveManagerTick(NewDriveManager(DefaultDrives, StartTime), e),
                      event, StartTime)
          /\ astate = AgentStatePerceive(AgentStateTick(NewAgentState, e), event)
    /\ \E soul \in RepeatSouls : sel \in RepeatSelectors(soul)
    /\ records = EmptyMap
    /\ behavior_counts = EmptyMap
    /\ conversations = EmptyMap
    /\ world = NewWorld
    /\ granted = {}
    /\ \E env \in AgentEnvInputs : last = [op |-> "init", env |-> env, n |-> 0]
    /\ steps = 0

NextRepeat == DecideAgain \/ TimePasses

SpecRepeat == InitRepeat /\ [][NextRepeat]_vars

\* ---------------------------------------------- parts not in use by a spec

NoSelector == NewSelector(<<>>)
NoAgentState == NewAgentState
NoDriveManager == NewDriveManager(EmptyMap, 0)

\* ------------------------------------------------- the drive model's spec

InitDrives ==
    /\ now = StartTime
    /\ \E cfg \in {DefaultDrives, CustomDrives} : dm = NewDriveManager(cfg, StartTime)
    /\ sel = NoSelector
    /\ astate = NoAgentState
    /\ records = EmptyMap
    /\ behavior_counts = EmptyMap
    /\ conversations = EmptyMap
    /\ world = NewWorld
    /\ granted = {}
    /\ last = [op |-> "init"]
    /\ steps = 0

\* half an hour passes
AdvanceDrives == AdvanceBy({1800}, MaxSteps)

NextDrives == DMTick \/ DMSatisfy \/ AdvanceDrives

SpecDrives == InitDrives /\ [][NextDrives]_vars

\* the inputs of the selector's calls
DrivesInputs == {EmptyMap, "teaching" :> 90, ("teaching" :> 50) @@ ("social" :> 80)}
StateInputs == {EmptyMap, "energy" :> 60, "energy" :> 10}
EnvInputs == {EmptyMap, "location_type" :> "temple"}
CultureInputs == {EmptyMap, AffinityKey("trickster") :> 100}
AllowedInputs ==
    {<<"temple_guide", "observer">>, <<"trickster", "temple_guide">>,
     <<"temple_guide", "trickster", "observer">>}

\* what select computes per persona before scoring: time_since and the penalty
TimeSince(s, current_time) ==
    [i \in 1..Len(s.personas) |-> current_time - Get(s.cooldowns, s.personas[i], 0)]

\* a call of PersonaSelector.select at the current time
SelSelect ==
    /\ steps < MaxSteps
    /\ \E drives \in DrivesInputs, state \in StateInputs,
          env \in EnvInputs, culture \in CultureInputs :
          last' = [op |-> "select", drives |-> drives, state |-> state, env |-> env,
                   culture |-> culture, current_time |-> now,
                   time_since |-> TimeSince(sel, now),
                   cooldown_penalty |->
                       [i \in 1..Len(sel.personas) |->
                           CooldownPenalty(TimeSince(sel, now)[i])],
                   result |-> Select(sel, drives, state, env, culture, now)]
    /\ steps' = steps + 1
    /\ UNCHANGED <<granted, now, dm, sel, astate, records, behavior_counts, conversations, world>>

\* a call of PersonaSelector.switch_to at the current time
SelSwitchTo ==
    /\ steps < MaxSteps
    /\ \E pid \in DOMAIN Catalog :
          /\ InList(pid, sel.personas)
          /\ sel' = SwitchTo(sel, pid, now)
          /\ last' = [op |-> "switch_to", persona_id |-> pid, from |-> sel.current]
    /\ steps' = steps + 1
    /\ UNCHANGED <<granted, now, dm, astate, records, behavior_counts, conversations, world>>

\* time passes: a second, or up to the end of the cooldown and of the hour
AdvanceSelector == AdvanceBy({1, 1079, 2520}, MaxSteps)

\* a selector as Agent.__init__ leaves it (current assigned from outside), or
\* a bare one (current None)
InitSelector ==
    /\ now = StartTime
    /\ dm = NoDriveManager
    /\ \E allowed \in AllowedInputs, current \in {None, Some("temple_guide"), Some("trickster")} :
          sel = [NewSelector(allowed) EXCEPT !.current = current]
    /\ astate = NoAgentState
    /\ records = EmptyMap
    /\ behavior_counts = EmptyMap
    /\ conversations = EmptyMap
    /\ world = NewWorld
    /\ granted = {}
    /\ last = [op |-> "init"]
    /\ steps = 0

NextSelector == SelSelect \/ SelSwitchTo \/ AdvanceSelector

SpecSelector == InitSelector /\ [][NextSelector]_vars

\* ------------------------------------------------------------ culture engine

\* the most calls of observe_behavior explored
MaxObservations == 6

\* CultureRecord
CultureRecord(id, kind, summary, strength, last_observed, evidence_ids, scope) ==
    [id |-> id, kind |-> kind, summary |-> summary, strength |-> strength,
     last_observed |-> last_observed, evidence_ids |-> evidence_ids, scope |-> scope]

\* CultureEngine.archive_threshold, 0.2
ArchiveThreshold == 20

\* a decay with the sign of the change reversed
DecayRaises(record, hours) ==
    [record EXCEPT !.strength = Max(0, record.strength + 1 * hours)]

\* CultureRecord.decay with the default rate, 0.01 an hour
Decay(record, hours) ==
    [record EXCEPT !.strength = Max(0, record.strength - 1 * hours)]

\* a reinforce that forgets the cap
ReinforceNoCap(record, amount, t) ==
    [record EXCEPT !.strength = record.strength + amount, !.last_observed = t]

\* CultureRecord.reinforce
Reinforce(record, amount, t) ==
    [record EXCEPT !.strength = Min(Scale, record.strength + amount),
                   !.last_observed = t]

\* f"{location}:{behavior}"
BehaviorKey(location, behavior) == location \o ":" \o behavior

\* f"norm:{location}:{behavior}" and its like
RecordId(kind, location, name) == kind \o ":" \o location \o ":" \o name

\* a count that starts the key's counter afresh
CountUpFromZero(counts, key, agent_id) == Put(counts, key, agent_id :> 1)

\* self.behavior_counts[key][agent_id] += 1, on a defaultdict of defaultdicts
CountUp(counts, key, agent_id) ==
    LET of_key == Get(counts, key, EmptyMap)
    IN  Put(counts, key, Put(of_key, agent_id, Get(of_key, agent_id, 0) + 1))

RECURSIVE SumValues(_)
\* sum(d.values())
SumValues(d) ==
    IF DOMAIN d = {} THEN 0
    ELSE LET k == CHOOSE x \in DOMAIN d : TRUE
         IN  d[k] + SumValues([x \in DOMAIN d \ {k} |-> d[x]])

\* a _maybe_create_norm that reinforces without recording the evidence
MaybeCreateNormNoEvidence(recs, behavior, location, event_id, t) ==
    LET record_id == RecordId("norm", location, behavior)
    IN  IF record_id \in DOMAIN recs
        THEN Put(recs, record_id, Reinforce(recs[record_id], 10, t))
        ELSE Put(recs, record_id,
                 CultureRecord(record_id, "norm",
                               "Agents tend to " \o behavior \o " in " \o location,
                               40, t, <<event_id>>, "location" :> location))

\* CultureEngine._maybe_create_norm
MaybeCreateNorm(recs, behavior, location, event_id, t) ==
    LET record_id == RecordId("norm", location, behavior)
    IN  IF record_id \in DOMAIN recs
        THEN Put(recs, record_id,
                 [Reinforce(recs[record_id], 10, t) EXCEPT
                     !.evidence_ids = Append(recs[record_id].evidence_ids, event_id)])
        ELSE Put(recs, record_id,
                 CultureRecord(record_id, "norm",
                               "Agents tend to " \o behavior \o " in " \o location,
                               40, t, <<event_id>>, "location" :> location))

\* a promotion test without the distinct-agent requirement
MeetsThresholdAnyAgents(total, unique_agents) == total >= 5

\* CultureEngine.observe_behavior: the promotion test
MeetsThreshold(total, unique_agents) == total >= 5 /\ unique_agents >= 2

\* CultureEngine.observe_behavior: the records afterwards, given the counts
\* afterwards
ObserveBehaviorRecords(recs, counts, behavior, location, event_id, t) ==
    LET key           == BehaviorKey(location, behavior)
        total         == SumValues(counts[key])
        unique_agents == Cardinality(DOMAIN counts[key])
    IN  IF MeetsThreshold(total, unique_agents)
        THEN MaybeCreateNorm(recs, behavior, location, event_id, t)
        ELSE recs

\* CultureEngine.observe_ritual
ObserveRitualRecords(recs, ritual_name, participants, location, event_id, t) ==
    LET record_id == RecordId("ritual", location, ritual_name)
    IN  IF record_id \in DOMAIN recs
        THEN Put(recs, record_id, Reinforce(recs[record_id], 15, t))
        ELSE Put(recs, record_id,
                 CultureRecord(record_id, "ritual",
                               ritual_name \o " practiced in " \o location,
                               50, t, <<event_id>>,
                               ("location" :> location)
                               @@ ("min_participants" :> Len(participants))))

\* CultureEngine.observe_violation
ObserveViolationRecords(recs, behavior, agent_id, location, negative_reactions, t) ==
    IF negative_reactions >= 2
    THEN LET record_id == RecordId("taboo", location, behavior)
         IN  IF record_id \in DOMAIN recs
             THEN Put(recs, record_id, Reinforce(recs[record_id], 10, t))
             ELSE Put(recs, record_id,
                      CultureRecord(record_id, "taboo",
                                    behavior \o " is frowned upon in " \o location,
                                    40, t, <<>>, "location" :> location))
    ELSE recs

\* a tick that archives below promote_threshold (0.6) instead
ArchivedBelowPromote(record) == record.strength < 60

\* CultureEngine.tick: a record is archived
Archived(record) == record.strength < ArchiveThreshold

\* CultureEngine.tick
CultureTickRecords(recs, hours) ==
    LET decayed    == [id \in DOMAIN recs |-> Decay(recs[id], hours)]
        to_archive == {id \in DOMAIN decayed : Archived(decayed[id])}
    IN  [id \in DOMAIN decayed \ to_archive |-> decayed[id]]

\* a context that forgets the strength filter
GetCultureContextAnyStrength(recs, location) ==
    LET shown(kind) ==
            {recs[id].summary : id \in
                {x \in DOMAIN recs :
                    /\ Get(recs[x].scope, "location", "") = location
                    /\ recs[x].kind = kind}}
    IN  [norms |-> shown("norm"), rituals |-> shown("ritual"),
         taboos |-> shown("taboo"), location |-> location]

\* CultureEngine.get_culture_context; the lists as sets of summaries
GetCultureContext(recs, location) ==
    LET shown(kind) ==
            {recs[id].summary : id \in
                {x \in DOMAIN recs :
                    /\ Get(recs[x].scope, "location", "") = location
                    /\ recs[x].strength >= 30
                    /\ recs[x].kind = kind}}
    IN  [norms |-> shown("norm"), rituals |-> shown("ritual"),
         taboos |-> shown("taboo"), location |-> location]

\* all observations counted so far
RECURSIVE TotalObservations(_)
TotalObservations(counts) ==
    IF DOMAIN counts = {} THEN 0
    ELSE LET k == CHOOSE x \in DOMAIN counts : TRUE
         IN  SumValues(counts[k])
             + TotalObservations([x \in DOMAIN counts \ {k} |-> counts[x]])

\* the inputs of the culture engine's calls; two of the (location, behavior)
\* pairs format to the same key
BehaviorInputs ==
    {<<"temple", "bow">>, <<"temple", "inner:bow">>, <<"temple:inner", "bow">>}
AgentIds == {"kalrav_bhairav", "kavi_dev"}
HoursInputs == {2, 19}
ReactionInputs == {1, 2}
CultureLocations == {"temple", "plaza", "temple:inner"}

\* CultureEngine.observe_behavior on the engine; event ids are fresh ones
ObserveBehaviorEffect ==
    /\ \E lb \in BehaviorInputs, agent_id \in AgentIds :
          LET location == lb[1]
              behavior == lb[2]
              event_id == TotalObservations(behavior_counts) + 1
          IN  /\ behavior_counts' =
                    CountUp(behavior_counts, BehaviorKey(location, behavior), agent_id)
              /\ records' = ObserveBehaviorRecords(records, behavior_counts', behavior,
                                                   location, event_id, now)
              /\ last' = [op |-> "observe_behavior", behavior |-> behavior,
                          agent_id |-> agent_id, location |-> location,
                          event_id |-> event_id]
    /\ UNCHANGED <<granted, now, dm, sel, astate, conversations, world>>

\* a call of CultureEngine.observe_behavior on an engine that starts empty
ObserveBehavior ==
    /\ TotalObservations(behavior_counts) < MaxObservations
    /\ ObserveBehaviorEffect
    /\ UNCHANGED steps

\* a call of CultureEngine.observe_behavior on an engine that has run
ObserveBehaviorAgain ==
    /\ steps < MaxSteps
    /\ ObserveBehaviorEffect
    /\ steps' = steps + 1

\* a call of CultureEngine.observe_ritual
ObserveRitual ==
    /\ steps < MaxSteps
    /\ records' = ObserveRitualRecords(records, "chant", <<"kalrav_bhairav", "kavi_dev">>,
                                       "plaza", 0, now)
    /\ last' = [op |-> "observe_ritual", ritual_name |-> "chant", location |-> "plaza"]
    /\ steps' = steps + 1
    /\ UNCHANGED <<granted, now, dm, sel, astate, behavior_counts, conversations, world>>

\* a call of CultureEngine.observe_violation
ObserveViolation ==
    /\ steps < MaxSteps
    /\ \E n \in ReactionInputs :
          /\ records' = ObserveViolationRecords(records, "mockery", "kavi_dev",
                                                "temple", n, now)
          /\ last' = [op |-> "observe_violation", behavior |-> "mockery",
                      location |-> "temple", negative_reactions |-> n]
    /\ steps' = steps + 1
    /\ UNCHANGED <<granted, now, dm, sel, astate, behavior_counts, conversations, world>>

\* a call of CultureEngine.tick
CultureTick ==
    /\ steps < MaxSteps
    /\ \E hours \in HoursInputs :
          /\ records' = CultureTickRecords(records, hours)
          /\ last' = [op |-> "culture_tick", hours |-> hours,
                      before |-> [id \in DOMAIN records |-> records[id].strength]]
    /\ steps' = steps + 1
    /\ UNCHANGED <<granted, now, dm, sel, astate, behavior_counts, conversations, world>>

\* a call of CultureEngine.get_culture_context
GetCultureContextCall ==
    /\ steps < MaxSteps
    /\ \E location \in CultureLocations :
          last' = [op |-> "get_culture_context", location |-> location,
                   result |-> GetCultureContext(records, location)]
    /\ steps' = steps + 1
    /\ UNCHANGED <<granted, now, dm, sel, astate, records, behavior_counts, conversations, world>>

\* CultureEngine.__init__
InitCulture ==
    /\ now = StartTime
    /\ dm = NoDriveManager
    /\ sel = NoSelector
    /\ astate = NoAgentState
    /\ records = EmptyMap
    /\ behavior_counts = EmptyMap
    /\ conversations = EmptyMap
    /\ world = NewWorld
    /\ granted = {}
    /\ last = [op |-> "init"]
    /\ steps = 0

NextCulture == ObserveBehavior \/ ObserveRitual \/ ObserveViolation \/ CultureTick

SpecCulture == InitCulture /\ [][NextCulture]_vars

\* ------------------------------------------ a culture engine that has run

\* when the engine that has run made its observations: five hours before
RunningSince == StartTime - 5 * 3600

\* the counts after 'bow' was observed in the temple three times by one agent
\* and twice by another
RunningCounts ==
    CountUp(CountUp(CountUp(CountUp(CountUp(EmptyMap,
        "temple:bow", "kalrav_bhairav"), "temple:bow", "kalrav_bhairav"),
        "temple:bow", "kalrav_bhairav"), "temple:bow", "kavi_dev"),
        "temple:bow", "kavi_dev")

\* the records after the fifth of these observations: the norm, at 0.4
RunningNorm ==
    ObserveBehaviorRecords(EmptyMap, RunningCounts, "bow", "temple", 5, RunningSince)

\* the records after n more calls of observe_violation with two reactions
RECURSIVE ViolationsObserved(_, _)
ViolationsObserved(recs, n) ==
    IF n = 0 THEN recs
    ELSE ViolationsObserved(
             ObserveViolationRecords(recs, "mockery", "kavi_dev", "temple", 2,
                                     RunningSince), n - 1)

\* the engine after these observations and a tick: with seven violations and
\* tick(5) (norm at 0.35, taboo at 0.95), or with none and tick(19) (norm at
\* 0.21)
RunningRecords ==
    {CultureTickRecords(ViolationsObserved(RunningNorm, 7), 5),
     CultureTickRecords(RunningNorm, 19)}

\* the engine after n more observations of 'bow' in the temple by agent_id
RECURSIVE BowsObserved(_, _, _)
BowsObserved(engine, agent_id, n) ==
    IF n = 0 THEN engine
    ELSE LET counts == CountUp(engine.behavior_counts, "temple:bow", agent_id)
         IN  BowsObserved(
                 [records |-> ObserveBehaviorRecords(engine.records, counts, "bow",
                                  "temple", TotalObservations(counts), RunningSince),
                  behavior_counts |-> counts],
                 agent_id, n - 1)

\* CultureEngine.__init__
NewEngine == [records |-> EmptyMap, behavior_counts |-> EmptyMap]

\* an engine one observation short of the norm: three by one agent, one by
\* another
YoungEngine ==
    BowsObserved(BowsObserved(NewEngine, "kalrav_bhairav", 3), "kavi_dev", 1)

\* an engine whose norm was reinforced six times, up to 1.0, before tick(5)
\* left it at 0.95
EstablishedEngine ==
    LET observed == BowsObserved([records |-> RunningNorm,
                                  behavior_counts |-> RunningCounts], "kavi_dev", 6)
    IN  [observed EXCEPT !.records = CultureTickRecords(observed.records, 5)]

\* the engines that have run
RunningEngines ==
    {[records |-> r, behavior_counts |-> RunningCounts] : r \in RunningRecords}
    \cup {YoungEngine, EstablishedEngine}

InitCultureRunning ==
    /\ now = StartTime
    /\ dm = NoDriveManager
    /\ sel = NoSelector
    /\ astate = NoAgentState
    /\ \E engine \in RunningEngines :
          /\ records = engine.records
          /\ behavior_counts = engine.behavior_counts
    /\ conversations = EmptyMap
    /\ world = NewWorld
    /\ granted = {}
    /\ last = [op |-> "init"]
    /\ steps = 0

NextCultureRunning ==
    \/ ObserveBehaviorAgain
    \/ ObserveRitual
    \/ ObserveViolation
    \/ CultureTick
    \/ GetCultureContextCall

SpecCultureRunning == InitCultureRunning /\ [][NextCultureRunning]_vars

\* --------------------------------------------------------------- the world

\* Agent.__init__ with the catalog and the default drives: the agent's
\* drives, personas, state and location
NewAgent(soul, t) ==
    [dm |-> NewDriveManager(DefaultDrives, t), sel |-> AgentSelector(soul),
     astate |-> NewAgentState, location |-> None]

\* Location(id, type), with no agents
Location(id, type) == [id |-> id, type |-> type, capacity |-> 50, agents |-> <<>>]

\* World.add_location
AddLocation(w, location) ==
    [w EXCEPT !.locations = Put(w.locations, location.id, location)]

\* World._emit_event, without the timestamp and the random id
EmitEvent(w, event) == [w EXCEPT !.event_log = Append(w.event_log, event)]

\* list.remove(x): the list without the first x
RECURSIVE Remove(_, _)
Remove(list, x) ==
    IF list = <<>> THEN <<>>
    ELSE IF Head(list) = x THEN Tail(list)
    ELSE <<Head(list)>> \o Remove(Tail(list), x)

\* World.move_agent
MoveAgent(w, agent_id, location_id) ==
    IF agent_id \notin DOMAIN w.agents \/ location_id \notin DOMAIN w.locations
    THEN w
    ELSE LET old_location == w.agents[agent_id].location
             left ==
                 IF /\ old_location # None
                    /\ old_location[1] # ""
                    /\ old_location[1] \in DOMAIN w.locations
                    /\ InList(agent_id, w.locations[old_location[1]].agents)
                 THEN [w.locations EXCEPT ![old_location[1]].agents =
                          Remove(@, agent_id)]
                 ELSE w.locations
             entered == [left EXCEPT ![location_id].agents = Append(@, agent_id)]
         IN  EmitEvent([w EXCEPT !.locations = entered,
                                 !.agents[agent_id].location = Some(location_id)],
                       [type |-> "agent.moved", agent_id |-> agent_id,
                        from |-> old_location, to |-> location_id])

\* World.spawn_agent at time t; location_id None or an id
SpawnAgent(w, identity, soul, location_id, t) ==
    LET added == [w EXCEPT !.agents = Put(w.agents, identity, NewAgent(soul, t)),
                           !.order = IF InList(identity, w.order) THEN w.order
                                     ELSE Append(w.order, identity)]
        moved == IF /\ location_id # None
                    /\ location_id[1] # ""
                    /\ location_id[1] \in DOMAIN w.locations
                 THEN MoveAgent(added, identity, location_id[1])
                 ELSE added
    IN  EmitEvent(moved, [type |-> "agent.spawned", agent_id |-> identity,
                          location |-> location_id])

\* Agent.tick on an agent of the world
AgentTicked(agent, elapsed_minutes) ==
    [agent EXCEPT !.dm = DriveManagerTick(agent.dm, elapsed_minutes),
                  !.astate = AgentStateTick(agent.astate, elapsed_minutes)]

\* Agent.perceive on an agent of the world
AgentPerceived(agent, event, t) ==
    [agent EXCEPT !.dm = DriveManagerPerceive(agent.dm, event, t),
                  !.astate = AgentStatePerceive(agent.astate, event)]

\* the state of an agent as decide_action passes it to select
StateOf(agent) ==
    [k \in {"energy", "boredom", "social_tension"} |-> agent.astate[k]]

\* Agent.decide_action on an agent of the world: what select returns
AgentPicked(agent, env, t) ==
    Select(agent.sel, agent.dm.pressures, StateOf(agent), env,
           Get(env, "culture", EmptyMap), t)

\* Agent.decide_action on an agent of the world, select having returned
AgentDecided(agent, env, t, t2) ==
    [agent EXCEPT !.sel = SelectorDecide(agent.sel, AgentPicked(agent, env, t), t2)]

\* the loop of World.tick over self.agents.values()
RECURSIVE WorldTickAgents(_, _, _)
WorldTickAgents(agents, order, minutes) ==
    IF order = <<>> THEN agents
    ELSE WorldTickAgents([agents EXCEPT ![Head(order)] = AgentTicked(@, minutes)],
                         Tail(order), minutes)

\* World.tick: the world afterwards (the culture engine apart)
WorldTicked(w, minutes) ==
    EmitEvent([w EXCEPT !.tick_count = w.tick_count + 1,
                        !.agents = WorldTickAgents(w.agents, w.order, minutes)],
              [type |-> "world.tick", tick |-> w.tick_count + 1,
               minutes |-> minutes, agent_count |-> Len(w.order)])

\* the souls of demo.py
KalravSoul == Soul("temple_guide", <<"temple_guide", "observer">>)
KaviSoul == Soul("trickster", <<"trickster", "observer">>)

\* the world as demo.py sets it up: two locations, two agents in the temple
DemoWorld ==
    SpawnAgent(
        SpawnAgent(
            AddLocation(AddLocation(NewWorld, Location("temple", "temple")),
                        Location("plaza", "plaza")),
            "kalrav_bhairav", KalravSoul, Some("temple"), StartTime),
        "kavi_dev", KaviSoul, Some("temple"), StartTime)

\* the world with the two locations of demo.py and no agent yet
EmptyDemoWorld ==
    AddLocation(AddLocation(NewWorld, Location("temple", "temple")),
                Location("plaza", "plaza"))

\* the soul of an identity
SoulOf(identity) == IF identity = "kalrav_bhairav" THEN KalravSoul ELSE KaviSoul

\* the inputs of spawn_agent and move_agent: known and unknown locations and
\* agents
SpawnLocations == {None, Some("temple"), Some("cave")}
Moves ==
    {<<"kalrav_bhairav", "temple">>, <<"kalrav_bhairav", "plaza">>,
     <<"kavi_dev", "temple">>, <<"kavi_dev", "plaza">>,
     <<"kalrav_bhairav", "cave">>, <<"stranger", "temple">>}

\* a call of World.spawn_agent
WorldSpawnAgent ==
    /\ steps < MaxSteps
    /\ \E identity \in AgentIds, location_id \in SpawnLocations :
          /\ world' = SpawnAgent(world, identity, SoulOf(identity), location_id, now)
          /\ last' = [op |-> "spawn_agent", agent_id |-> identity,
                      location_id |-> location_id]
    /\ steps' = steps + 1
    /\ UNCHANGED <<granted, now, dm, sel, astate, records, behavior_counts, conversations>>

\* a call of World.move_agent
WorldMoveAgent ==
    /\ steps < MaxSteps
    /\ \E move \in Moves :
          /\ world' = MoveAgent(world, move[1], move[2])
          /\ last' = [op |-> "move_agent", agent_id |-> move[1],
                      location_id |-> move[2]]
    /\ steps' = steps + 1
    /\ UNCHANGED <<granted, now, dm, sel, astate, records, behavior_counts, conversations>>

\* the world of demo.py before its agents are spawned
InitPopulate ==
    /\ now = StartTime
    /\ dm = NoDriveManager
    /\ sel = NoSelector
    /\ astate = NoAgentState
    /\ records = EmptyMap
    /\ behavior_counts = EmptyMap
    /\ conversations = EmptyMap
    /\ world = EmptyDemoWorld
    /\ granted = {}
    /\ last = [op |-> "init"]
    /\ steps = 0

NextPopulate == WorldSpawnAgent \/ WorldMoveAgent

SpecPopulate == InitPopulate /\ [][NextPopulate]_vars

\* the inputs of the world's calls
WorldElapsedInputs == {10, 40}
WorldEventInputs == {"type" :> "chat", "type" :> "arrival"}
WorldEnvInputs == {"location_type" :> "temple"}
WorldMinutesInputs == {60, 120}

\* agents that share one DriveManager and one AgentState: a tick of one
\* ticks them all
WorldAgentTickShared ==
    /\ steps < MaxSteps
    /\ \E agent_id \in DOMAIN world.agents, e \in WorldElapsedInputs :
          /\ world' = [world EXCEPT !.agents =
                           [a \in DOMAIN world.agents |-> AgentTicked(world.agents[a], e)]]
          /\ last' = [op |-> "agent_tick", agent_id |-> agent_id, elapsed |-> e,
                      before |-> world.agents[agent_id]]
    /\ steps' = steps + 1
    /\ UNCHANGED <<granted, now, dm, sel, astate, records, behavior_counts, conversations>>

\* a call of Agent.tick on an agent of the world
WorldAgentTick ==
    /\ steps < MaxSteps
    /\ \E agent_id \in DOMAIN world.agents, e \in WorldElapsedInputs :
          /\ world' = [world EXCEPT !.agents[agent_id] = AgentTicked(@, e)]
          /\ last' = [op |-> "agent_tick", agent_id |-> agent_id, elapsed |-> e,
                      before |-> world.agents[agent_id]]
    /\ steps' = steps + 1
    /\ UNCHANGED <<granted, now, dm, sel, astate, records, behavior_counts, conversations>>

\* a call of Agent.perceive on an agent of the world
WorldAgentPerceive ==
    /\ steps < MaxSteps
    /\ \E agent_id \in DOMAIN world.agents, event \in WorldEventInputs :
          /\ world' = [world EXCEPT !.agents[agent_id] = AgentPerceived(@, event, now)]
          /\ last' = [op |-> "perceive", agent_id |-> agent_id, event |-> event]
    /\ steps' = steps + 1
    /\ UNCHANGED <<granted, now, dm, sel, astate, records, behavior_counts, conversations>>

\* a call of Agent.decide_action on an agent of the world; the clock is read
\* once for select and once more for switch_to
WorldAgentDecideAction ==
    /\ steps < MaxSteps
    /\ \E agent_id \in DOMAIN world.agents, env \in WorldEnvInputs,
          t2 \in {now, now + 1} :
          LET agent  == world.agents[agent_id]
              picked == AgentPicked(agent, env, now)
          IN  /\ picked.raised = ""
              /\ (Some(picked.pid) = agent.sel.current => t2 = now)
              /\ world' = [world EXCEPT !.agents[agent_id] =
                               AgentDecided(agent, env, now, t2)]
              /\ now' = t2
              /\ last' = [op |-> "decide_action", agent_id |-> agent_id,
                          env |-> env, picked |-> picked.pid,
                          type |-> ActionType(world'.agents[agent_id].sel, agent.dm,
                                              agent.astate)]
    /\ steps' = steps + 1
    /\ UNCHANGED <<granted, dm, sel, astate, records, behavior_counts, conversations>>

\* a call of World.tick: the agents in turn, then the culture engine
WorldTick ==
    /\ steps < MaxSteps
    /\ \E minutes \in WorldMinutesInputs :
          /\ world' = WorldTicked(world, minutes)
          /\ records' = CultureTickRecords(records, minutes \div 60)
          /\ last' = [op |-> "world_tick", minutes |-> minutes]
    /\ steps' = steps + 1
    /\ UNCHANGED <<granted, now, dm, sel, astate, behavior_counts, conversations>>

\* the culture engine of the world: fresh, or one that has run
WorldCultures ==
    {[records |-> EmptyMap, behavior_counts |-> EmptyMap]}
    \cup {[records |-> r, behavior_counts |-> RunningCounts] : r \in RunningRecords}

\* the world of demo.py
InitWorld ==
    /\ now = StartTime
    /\ dm = NoDriveManager
    /\ sel = NoSelector
    /\ astate = NoAgentState
    /\ \E culture \in WorldCultures :
          /\ records = culture.records
          /\ behavior_counts = culture.behavior_counts
    /\ conversations = EmptyMap
    /\ world = DemoWorld
    /\ granted = {}
    /\ last = [op |-> "init"]
    /\ steps = 0

NextWorld ==
    \/ WorldAgentTick
    \/ WorldAgentPerceive
    \/ WorldAgentDecideAction
    \/ WorldTick
    \/ ObserveViolation
    \/ CultureTick

SpecWorld == InitWorld /\ [][NextWorld]_vars

\* ------------------------------------------------- conversation orchestrator

\* Message
Message(id, speaker_id, speaker_name, content, timestamp) ==
    [id |-> id, speaker_id |-> speaker_id, speaker_name |-> speaker_name,
     content |-> content, timestamp |-> timestamp, reply_to |-> None,
     importance |-> 50]

\* ConversationState(started_at=datetime.now())
NewConversation(t) ==
    [messages |-> <<>>, participants |-> EmptyMap, topic |-> None, started_at |-> Some(t)]

\* a get_or_create that starts a new conversation each time
GetOrCreateAlwaysNew(convs, location, t) == Put(convs, location, NewConversation(t))

\* ConversationOrchestrator.get_or_create: the conversations afterwards
GetOrCreate(convs, location, t) ==
    IF location \notin DOMAIN convs THEN Put(convs, location, NewConversation(t))
    ELSE convs

\* ConversationOrchestrator.add_message: the conversation afterwards
Appended(conv, message) ==
    [conv EXCEPT !.messages = Append(conv.messages, message),
                 !.participants = Put(conv.participants, message.speaker_id,
                                      message.timestamp)]

\* ConversationOrchestrator.add_message
AddMessageTo(convs, location, message, t) ==
    LET created == GetOrCreate(convs, location, t)
    IN  Put(created, location, Appended(created[location], message))

\* ConversationState.is_active, at time t
IsActive(conv, t) ==
    /\ conv.messages # <<>>
    /\ t - conv.messages[Len(conv.messages)].timestamp < 5 * 60

\* a time_since_last_spoke that measures from the start of the conversation
TimeSinceConversationStarted(conv, agent_id, t) ==
    IF agent_id \notin DOMAIN conv.participants THEN None
    ELSE Some(t - conv.started_at[1])

\* ConversationState.time_since_last_spoke, at time t; None is float('inf')
TimeSinceLastSpoke(conv, agent_id, t) ==
    IF agent_id \notin DOMAIN conv.participants THEN None
    ELSE Some(t - conv.participants[agent_id])

\* an urgency of 1.0, in urgency units of 1/10000000
UrgencyUnit == Scale * Scale * Scale * 10

\* the message contents that hold a '?'
QuestionContents == {"why?"}

\* "_".join(reasons) if reasons else "general"
RECURSIVE JoinReasons(_)
JoinReasons(reasons) ==
    IF reasons = <<>> THEN "general"
    ELSE IF Len(reasons) = 1 THEN reasons[1]
    ELSE reasons[1] \o "_" \o JoinReasons(Tail(reasons))

\* an answer that lets the agent who spoke last speak again
JustSpokeSpeaksAgain ==
    [should_speak |-> TRUE, urgency |-> 6 * (UrgencyUnit \div 10), reason |-> "just_spoke"]

\* should_respond: the answer to the agent who spoke last
JustSpoke == [should_speak |-> FALSE, urgency |-> 0, reason |-> "just_spoke"]

\* a test against the speaker's name instead of the speaker's id
SpokeLastByName(last_message, agent_id) == last_message.speaker_name = agent_id

\* should_respond: the last message is the agent's own
SpokeLast(last_message, agent_id) == last_message.speaker_id = agent_id

\* a test that lets a social drive of exactly 0.7 start a conversation
InitiatesAtThreshold(social_drive) == social_drive >= 70

\* should_respond with no messages: social_drive > 0.7
Initiates(social_drive) == social_drive > 70

\* a clamp of the urgency that forgets the floor
ClampUrgencyNoFloor(urgency) == Min(UrgencyUnit, urgency)

\* should_respond: urgency = max(0.0, min(1.0, urgency))
ClampUrgency(urgency) == Max(0, Min(UrgencyUnit, urgency))

\* ConversationOrchestrator.should_respond on the conversation conv at time
\* t, with the noise random.uniform(-0.1, 0.1) drew (hundredths)
ShouldRespond(conv, agent_id, agent_drives, agent_state, t, noise) ==
    IF conv.messages = <<>>
    THEN IF Initiates(Get(agent_drives, "social", 50))
         THEN [should_speak |-> TRUE, urgency |-> 6 * (UrgencyUnit \div 10),
               reason |-> "high_social_drive_initiate"]
         ELSE [should_speak |-> FALSE, urgency |-> 0, reason |-> "no_conversation"]
    ELSE
    LET last_message == conv.messages[Len(conv.messages)]
    IN  IF SpokeLast(last_message, agent_id) THEN JustSpoke
        ELSE
        LET social      == Get(agent_drives, "social", 50)
            question    == last_message.content \in QuestionContents
            teaching    == Get(agent_drives, "teaching", 50)
            energy      == Get(agent_state, "energy", 50)
            time_silent == TimeSinceLastSpoke(conv, agent_id, t)
            recently    == time_silent # None /\ time_silent[1] < 30
            quiet       == ~recently /\ (time_silent = None \/ time_silent[1] > 120)
            \* social * 0.3 (+ teaching * 0.4), in 1/10000
            base        == social * 30 + (IF question THEN teaching * 40 ELSE 0)
            \* times energy, times 0.5 or 1.2 or 1, in urgency units
            factored    == base * energy * (IF recently THEN 5 ELSE IF quiet THEN 12 ELSE 10)
            urgency     == ClampUrgency(factored + noise * (UrgencyUnit \div Scale))
            reasons     == (IF social > 70 THEN <<"social_drive">> ELSE <<>>)
                           \o (IF question /\ teaching > 50
                               THEN <<"teaching_opportunity">> ELSE <<>>)
                           \o (IF recently THEN <<"recently_spoke">>
                               ELSE IF quiet THEN <<"been_quiet">> ELSE <<>>)
        IN  [should_speak |-> urgency > 3 * (UrgencyUnit \div 10),
             urgency |-> urgency, reason |-> JoinReasons(reasons)]

\* min_response_delay and max_response_delay, hundredths of a second
MinResponseDelay == 1 * Scale
MaxResponseDelay == 5 * Scale

\* a delay that grows with the urgency
GetResponseDelaySlowerWhenUrgent(urgency, noise) ==
    LET delay_range == MaxResponseDelay - MinResponseDelay
        delay       == MinResponseDelay + (urgency * delay_range) \div Scale
    IN  Max(MinResponseDelay, delay + noise)

\* ConversationOrchestrator.get_response_delay in hundredths of a second,
\* for an urgency in hundredths and the noise random.uniform(-0.5, 0.5) drew
GetResponseDelay(urgency, noise) ==
    LET delay_range == MaxResponseDelay - MinResponseDelay
        delay       == MaxResponseDelay - (urgency * delay_range) \div Scale
    IN  Max(MinResponseDelay, delay + noise)

\* list[-limit:], the Python slice
SliceFromMinus(list, limit) ==
    LET n     == Len(list)
        start == IF limit > 0 THEN Max(0, n - limit) ELSE Min(0 - limit, n)
    IN  SubSeq(list, start + 1, n)

\* datetime.isoformat(): the text of a timestamp
IsoFormat(timestamp) == <<"iso", timestamp>>

\* get_recent_context: the dict made of a message
ContextEntry(message) ==
    [speaker |-> message.speaker_name, content |-> message.content,
     timestamp |-> IsoFormat(message.timestamp), agent_id |-> message.speaker_id]

\* ConversationOrchestrator.get_recent_context on the conversation conv
GetRecentContext(conv, limit) ==
    LET messages == SliceFromMinus(conv.messages, limit)
    IN  [i \in 1..Len(messages) |-> ContextEntry(messages[i])]

\* the inputs of the orchestrator's calls
AgentName(agent_id) == IF agent_id = "kalrav_bhairav" THEN "Kalrav" ELSE "Kavi"
LocationInputs == {"temple", "plaza"}
ContentInputs == {"hello", "why?"}
\* how long before add_message a message may have been stamped, seconds
LagInputs == {0, 45}
ResponderDrives ==
    {EmptyMap, ("social" :> 80) @@ ("teaching" :> 60), "social" :> 75,
     ("social" :> 70) @@ ("teaching" :> 100)}
ResponderStates == {EmptyMap, "energy" :> 100}
NoiseInputs == {0 - 10, 0, 10}
UrgencyInputs == {0, 50, 60, Scale}
DelayNoiseInputs == {0 - 50, 0, 50}
LimitInputs == {0, 1, 10}

\* a call of ConversationOrchestrator.add_message; the message was stamped
\* by its maker, now or a little earlier
AddMessage ==
    /\ steps < MaxConversationSteps
    /\ \E location \in LocationInputs, speaker \in AgentIds,
          content \in ContentInputs, lag \in LagInputs :
          LET message == Message(steps + 1, speaker, AgentName(speaker), content,
                                 now - lag)
          IN  /\ conversations' = AddMessageTo(conversations, location, message, now)
              /\ last' = [op |-> "add_message", location |-> location,
                          message |-> message]
    /\ steps' = steps + 1
    /\ UNCHANGED <<granted, now, dm, sel, astate, records, behavior_counts, world>>

\* a call of ConversationOrchestrator.should_respond
ShouldRespondCall ==
    /\ steps < MaxConversationSteps
    /\ \E agent_id \in AgentIds, drives \in ResponderDrives, state \in ResponderStates,
          location \in LocationInputs, noise \in NoiseInputs :
          /\ conversations' = GetOrCreate(conversations, location, now)
          /\ last' = [op |-> "should_respond", agent_id |-> agent_id,
                      agent_drives |-> drives, agent_state |-> state,
                      location |-> location, noise |-> noise,
                      result |-> ShouldRespond(conversations'[location], agent_id,
                                               drives, state, now, noise)]
    /\ steps' = steps + 1
    /\ UNCHANGED <<granted, now, dm, sel, astate, records, behavior_counts, world>>

\* a call of ConversationOrchestrator.get_response_delay
GetResponseDelayCall ==
    /\ steps < MaxConversationSteps
    /\ \E urgency \in UrgencyInputs, noise \in DelayNoiseInputs :
          last' = [op |-> "get_response_delay", urgency |-> urgency, noise |-> noise,
                   result |-> GetResponseDelay(urgency, noise)]
    /\ steps' = steps + 1
    /\ UNCHANGED <<granted, now, dm, sel, astate, records, behavior_counts, conversations,
                   world>>

\* a call of ConversationOrchestrator.get_recent_context
GetRecentContextCall ==
    /\ steps < MaxConversationSteps
    /\ \E location \in LocationInputs, limit \in LimitInputs :
          /\ conversations' = GetOrCreate(conversations, location, now)
          /\ last' = [op |-> "get_recent_context", location |-> location,
                      limit |-> limit,
                      result |-> GetRecentContext(conversations'[location], limit)]
    /\ steps' = steps + 1
    /\ UNCHANGED <<granted, now, dm, sel, astate, records, behavior_counts, world>>

\* time passes: a few seconds, two minutes and more, five minutes
AdvanceConversation == AdvanceBy({20, 130, 300}, MaxConversationSteps)

\* ConversationOrchestrator.__init__
InitConversation ==
    /\ now = StartTime
    /\ dm = NoDriveManager
    /\ sel = NoSelector
    /\ astate = NoAgentState
    /\ records = EmptyMap
    /\ behavior_counts = EmptyMap
    /\ conversations = EmptyMap
    /\ world = NewWorld
    /\ granted = {}
    /\ last = [op |-> "init"]
    /\ steps = 0

NextConversation ==
    \/ AddMessage
    \/ ShouldRespondCall
    \/ GetResponseDelayCall
    \/ GetRecentContextCall
    \/ AdvanceConversation

SpecConversation == InitConversation /\ [][NextConversation]_vars

\* ------------------------------------------------- agents that take turns

\* the drives, state and noise of the agents that take turns
TurnDrives == {"social" :> 75, ("social" :> 20) @@ ("teaching" :> 20)}
TurnNoise == {0 - 10, 10}

\* an agent asks should_respond whether to speak at a location, and keeps a
\* True answer until it has spoken there
AskTurn ==
    /\ steps < MaxTurnSteps
    /\ \E agent_id \in AgentIds, drives \in TurnDrives, location \in LocationInputs,
          noise \in TurnNoise :
          LET created == GetOrCreate(conversations, location, now)
              result  == ShouldRespond(created[location], agent_id, drives,
                                       "energy" :> Scale, now, noise)
          IN  /\ conversations' = created
              /\ granted' = IF result.should_speak
                            THEN granted \cup {<<agent_id, location>>}
                            ELSE granted
              /\ last' = [op |-> "should_respond", agent_id |-> agent_id,
                          location |-> location, result |-> result]
    /\ steps' = steps + 1
    /\ UNCHANGED <<now, dm, sel, astate, records, behavior_counts, world>>

\* an agent that holds a True answer for a location adds its message there
SpeakInTurn ==
    /\ steps < MaxTurnSteps
    /\ \E pair \in granted, content \in ContentInputs :
          LET message == Message(steps + 1, pair[1], AgentName(pair[1]), content, now)
          IN  /\ conversations' = AddMessageTo(conversations, pair[2], message, now)
              /\ granted' = granted \ {pair}
              /\ last' = [op |-> "add_message", location |-> pair[2],
                          message |-> message]
    /\ steps' = steps + 1
    /\ UNCHANGED <<now, dm, sel, astate, records, behavior_counts, world>>

\* time passes between the agents' calls: seconds, or more than five minutes
AdvanceTurns == AdvanceBy({20, 400}, MaxTurnSteps)

NextTurns == AskTurn \/ SpeakInTurn \/ AdvanceTurns

SpecTurns == InitConversation /\ [][NextTurns]_vars

\* ---------------------------------------------- the culture engine's properties

\* the NORM records filed under a behaviour key
NormsOf(key) ==
    {id \in DOMAIN records : records[id].kind = "norm" /\ id = "norm:" \o key}

\* C4: a behaviour observed by a single agent, however often, never creates a
\* NORM record (every NORM record belongs to a key observed at least 5 times
\* by at least 2 distinct agents); and as soon as a (location, behavior) key
\* has at least 5 observations from at least 2 distinct agents, exactly one
\* NORM record exists for that key.
C4_NormPromotion ==
    /\ \A id \in DOMAIN records :
          records[id].kind = "norm" =>
              \E key \in DOMAIN behavior_counts :
                  /\ id \in NormsOf(key)
                  /\ Cardinality(DOMAIN behavior_counts[key]) >= 2
                  /\ SumValues(behavior_counts[key]) >= 5
    /\ last.op = "observe_behavior" =>
          LET key == last.location \o ":" \o last.behavior
          IN  (/\ SumValues(behavior_counts[key]) >= 5
               /\ Cardinality(DOMAIN behavior_counts[key]) >= 2)
                  => Cardinality(NormsOf(key)) = 1

\* C4's case: one agent has made five observations of a key without a NORM
\* coming of them, and the sixth, by a second agent, has created the record.
C4_Witness ==
    /\ last.op = "observe_behavior"
    /\ last.location = "temple" /\ last.behavior = "bow"
    /\ behavior_counts["temple:bow"] = ("kalrav_bhairav" :> 5) @@ ("kavi_dev" :> 1)
    /\ Cardinality(NormsOf("temple:bow")) = 1
    /\ records["norm:temple:bow"].evidence_ids = <<6>>
    /\ records["norm:temple:bow"].strength = 40

\* C5: tick(hours) lowers every record's strength by 0.01 * hours, not below
\* 0, removes every record whose lowered strength is below 0.2 and keeps the
\* others; a record at 0.21 ticked for 2 hours is removed.
C5_TickDecaysAndArchives ==
    [][last'.op = "culture_tick" =>
        /\ DOMAIN records' \subseteq DOMAIN records
        /\ \A id \in DOMAIN records :
              LET lowered == IF records[id].strength - last'.hours < 0 THEN 0
                             ELSE records[id].strength - last'.hours
              IN  /\ lowered < 20 => id \notin DOMAIN records'
                  /\ lowered >= 20 =>
                        /\ id \in DOMAIN records'
                        /\ records'[id].strength = lowered
                  /\ (records[id].strength = 21 /\ last'.hours = 2) =>
                        id \notin DOMAIN records'
    ]_vars

\* C5's case: a record at 0.21 has been ticked for 2 hours and is gone, while
\* another record has been lowered and kept.
C5_Witness ==
    /\ last.op = "culture_tick"
    /\ last.hours = 2
    /\ \E id \in DOMAIN last.before :
          last.before[id] = 21 /\ id \notin DOMAIN records
    /\ \E id \in DOMAIN last.before :
          id \in DOMAIN records /\ records[id].strength = last.before[id] - 2

\* ------------------------------------------------ the orchestrator's properties

\* C6: should_respond, called for the speaker of the most recent message at
\* the location, returns (False, 0.0, "just_spoke") whatever the agent's
\* drives, energy and the elapsed time.
C6_LastSpeakerStaysSilent ==
    (/\ last.op = "should_respond"
     /\ conversations[last.location].messages # <<>>
     /\ LET messages == conversations[last.location].messages
        IN  messages[Len(messages)].speaker_id = last.agent_id)
    => /\ last.result.should_speak = FALSE
       /\ last.result.urgency = 0
       /\ last.result.reason = "just_spoke"

\* C6's case: the last speaker asks with high drives and full energy, more
\* than two minutes after speaking.
C6_Witness ==
    /\ last.op = "should_respond"
    /\ conversations[last.location].messages # <<>>
    /\ LET messages == conversations[last.location].messages
       IN  /\ messages[Len(messages)].speaker_id = last.agent_id
           /\ now - messages[Len(messages)].timestamp > 120
    /\ Get(last.agent_drives, "social", 50) = 80
    /\ Get(last.agent_state, "energy", 50) = 100
    /\ last.result = [should_speak |-> FALSE, urgency |-> 0, reason |-> "just_spoke"]

\* C7: after any sequence of add_message calls at a location, the
\* conversation's messages are ordered by timestamp ascending.
C7_MessagesOrderedByTimestamp ==
    \A location \in DOMAIN conversations :
        LET messages == conversations[location].messages
        IN  \A i, j \in 1..Len(messages) :
                i < j => messages[i].timestamp <= messages[j].timestamp

\* --------------------------------------------------- the selector's properties

\* the total scores select gave the allowed personas in the last call
LastScores ==
    [i \in 1..Len(sel.personas) |->
        ScorePersona(Catalog[sel.personas[i]], last.drives, last.state, last.env,
                     last.culture, last.cooldown_penalty[i]).score]

\* the highest of them
LastBestScore ==
    LastScores[CHOOSE i \in 1..Len(sel.personas) :
                  \A j \in 1..Len(sel.personas) : LastScores[i] >= LastScores[j]]

\* the score of the current persona: its total when it is an allowed persona,
\* and 0, as select counts it, when it is not
LastCurrentScore ==
    IF \E i \in 1..Len(sel.personas) : sel.personas[i] = sel.current[1]
    THEN LastScores[CHOOSE i \in 1..Len(sel.personas) : sel.personas[i] = sel.current[1]]
    ELSE 0

\* C2: whenever a current persona is set and best_score - score(current) is
\* below 0.15, select returns the current persona id unchanged, whichever
\* persona is ranked first.
C2_HysteresisKeepsCurrent ==
    (last.op = "select" /\ CurrentSet(sel.current) /\ last.result.raised = "") =>
        (LastBestScore - LastCurrentScore < HysteresisMargin =>
            last.result.pid = sel.current[1])

\* C2's case: another persona is ranked first, by less than 0.15, and select
\* has returned the current one.
C2_Witness ==
    /\ last.op = "select"
    /\ CurrentSet(sel.current)
    /\ last.result.raised = ""
    /\ \E i \in 1..Len(sel.personas) :
          /\ sel.personas[i] = sel.current[1]
          /\ LastScores[i] < LastBestScore
    /\ LastBestScore - LastCurrentScore < HysteresisMargin
    /\ last.result.pid = sel.current[1]

\* C8: the cooldown penalty select computes strictly decreases as
\* now - last_switch increases, reaches 0 at exactly 3600 seconds elapsed, and
\* is never negative.
C8_CooldownDecaysOverOneHour ==
    last.op = "select" =>
        \A i \in 1..Len(sel.personas) :
            /\ last.cooldown_penalty[i] >= 0
            /\ (last.cooldown_penalty[i] = 0) <=> (last.time_since[i] >= 3600)
            /\ \A j \in 1..Len(sel.personas) :
                  (0 <= last.time_since[i] /\ last.time_since[i] < last.time_since[j]
                   /\ last.time_since[i] < 3600)
                      => last.cooldown_penalty[i] > last.cooldown_penalty[j]

\* ------------------------------------------------------ the agent's properties

\* C3: once an Agent is constructed, and after any sequence of decide_action
\* calls, the current persona id is one of the agent's allowed personas that
\* exists in the catalog.
C3_CurrentPersonaAllowed ==
    /\ sel.current # None
    /\ InList(sel.current[1], sel.personas)
    /\ sel.current[1] \in DOMAIN Catalog

\* ------------------------------------------------ the drive model's properties

\* clamp01 as the specification writes it
Clamp01(x) == IF x < 0 THEN 0 ELSE IF x > Scale THEN Scale ELSE x

\* C1: after every tick(elapsed_minutes >= 0) and every satisfy(drive, amount),
\* every drive pressure is within [0, 1].
C1_PressureBounds ==
    \A d \in DOMAIN dm.pressures : 0 <= dm.pressures[d] /\ dm.pressures[d] <= Scale

\* C1's case: a tick has driven a pressure to the ceiling and a satisfy has
\* driven another to the floor, where the clamp is what holds them.
C1_Witness ==
    /\ last.op = "dm_satisfy"
    /\ last.amount = Some(130)
    /\ last.drive \in DOMAIN dm.drives
    /\ dm.pressures[last.drive] = 0
    /\ \E d \in DOMAIN dm.pressures : dm.pressures[d] = Scale

\* C9: tick(m) sets pressure[d] to clamp01(pressure[d] + decay_rate[d] * m)
\* for every configured drive d (a drive without a pressure yet counts from
\* 0.5, as update_pressure reads it) and leaves last_satisfied unchanged; a
\* fresh manager with the default drives has every pressure at 1.0 after
\* tick(50).
C9_TickSetsPressures ==
    [][last'.op = "dm_tick" =>
        /\ \A d \in DOMAIN dm.drives :
              /\ d \in DOMAIN dm'.pressures
              /\ dm'.pressures[d] =
                    Clamp01(Get(dm.pressures, d, 50)
                            + dm.drives[d].decay_rate * last'.elapsed)
        /\ dm'.last_satisfied = dm.last_satisfied
        /\ (steps = 0 /\ dm.drives = DefaultDrives /\ last'.elapsed = 50) =>
              \A d \in DOMAIN dm'.pressures : dm'.pressures[d] = Scale
    ]_vars

\* C9's case: the fresh manager with the default drives after tick(50).
C9_Witness ==
    /\ steps = 1
    /\ last.op = "dm_tick"
    /\ last.elapsed = 50
    /\ dm.drives = DefaultDrives
    /\ \A d \in DOMAIN DefaultDrives : dm.pressures[d] = Scale

\* C10: satisfy(d, amount) on a configured drive sets pressure[d] to
\* clamp01(pressure[d] - amount) for every supplied amount, amount 0 included,
\* and to clamp01(pressure[d] - satisfy_amount[d]) only when no amount is
\* supplied; the pressures of all other drives are unchanged.
C10_SatisfySuppliedAmount ==
    [][(last'.op = "dm_satisfy" /\ last'.drive \in DOMAIN dm.drives) =>
        LET d   == last'.drive
            amt == IF last'.amount # None THEN last'.amount[1]
                   ELSE dm.drives[d].satisfy_amount
        IN  /\ dm'.pressures[d] = Clamp01(Get(dm.pressures, d, 50) - amt)
            /\ \A o \in DOMAIN dm.pressures \ {d} :
                  dm'.pressures[o] = dm.pressures[o]
    ]_vars

\* C11: satisfy on a drive kind that is not configured changes nothing: every
\* pressure and every last_satisfied entry is as before, and no entry is
\* added.
C11_SatisfyUnconfiguredNoOp ==
    [][(last'.op = "dm_satisfy" /\ last'.drive \notin DOMAIN dm.drives) =>
        /\ dm'.pressures = dm.pressures
        /\ dm'.last_satisfied = dm.last_satisfied
        /\ dm'.drives = dm.drives
    ]_vars

\* C11's case: half an hour after construction, with the pressures away from
\* their start, satisfy('play', 0.2) has been called on a manager that has no
\* 'play' drive.
C11_Witness ==
    /\ last.op = "dm_satisfy"
    /\ last.drive = "play"
    /\ last.amount = Some(20)
    /\ "play" \notin DOMAIN dm.drives
    /\ "play" \notin DOMAIN dm.pressures
    /\ now > StartTime
    /\ \A d \in DOMAIN dm.last_satisfied : dm.last_satisfied[d] = StartTime
    /\ \E d \in DOMAIN dm.pressures : dm.pressures[d] # 50

\* C12: should_respond at a location whose conversation has no messages
\* returns (True, 0.6, "high_social_drive_initiate") if and only if the social
\* pressure is above 0.7, and otherwise does not speak, with urgency 0.0,
\* whatever the energy and the other drives; social 0.75 with energy 1.0 gives
\* (True, 0.6, "high_social_drive_initiate").
C12_InitiatesOnHighSocialDrive ==
    (last.op = "should_respond" /\ conversations[last.location].messages = <<>>) =>
        LET social   == Get(last.agent_drives, "social", 50)
            initiate == [should_speak |-> TRUE, urgency |-> 6 * (UrgencyUnit \div 10),
                         reason |-> "high_social_drive_initiate"]
        IN  /\ (last.result = initiate) <=> (social > 70)
            /\ social <= 70 =>
                  last.result.should_speak = FALSE /\ last.result.urgency = 0
            /\ (last.agent_drives = ("social" :> 75)
                 /\ last.agent_state = ("energy" :> 100)) => last.result = initiate

\* C12's case: the call with social 0.75 and energy 1.0 at a location without
\* messages, answered (True, 0.6, "high_social_drive_initiate"), while the
\* other location has a conversation under way.
C12_Witness ==
    /\ last.op = "should_respond"
    /\ conversations[last.location].messages = <<>>
    /\ \E other \in DOMAIN conversations : conversations[other].messages # <<>>
    /\ last.agent_drives = ("social" :> 75)
    /\ last.agent_state = ("energy" :> 100)
    /\ last.result = [should_speak |-> TRUE, urgency |-> 6 * (UrgencyUnit \div 10),
                      reason |-> "high_social_drive_initiate"]

\* C18: every result of should_respond, in every branch and for every noise,
\* has its urgency within [0, 1] and has should_speak true if and only if the
\* urgency is above 0.3.
C18_UrgencyBoundsAndThreshold ==
    last.op = "should_respond" =>
        /\ 0 <= last.result.urgency
        /\ last.result.urgency <= UrgencyUnit
        /\ last.result.should_speak <=> (last.result.urgency > 3 * (UrgencyUnit \div 10))

\* C18's case: in the scoring branch (somebody else spoke last), the noise
\* has taken a low urgency below zero, the result holds 0.0 and silence.
C18_Witness ==
    /\ last.op = "should_respond"
    /\ conversations[last.location].messages # <<>>
    /\ LET messages == conversations[last.location].messages
       IN  messages[Len(messages)].speaker_id # last.agent_id
    /\ last.noise = 0 - 10
    /\ last.agent_drives = EmptyMap
    /\ last.result.urgency = 0
    /\ last.result.should_speak = FALSE
    /\ last.result.reason = "been_quiet"

\* C13: select returns the top-ranked persona whenever best_score -
\* score(current) is at least 0.15; with current persona trickster, candidate
\* temple_guide, drives {teaching: 0.9}, energy 0.6, empty env and culture and
\* no cooldown in effect, temple_guide's drive_compat is 0.72, the gap is
\* above 0.15 and select returns temple_guide.
C13_SwitchesOnLargeGap ==
    (last.op = "select" /\ last.result.raised = "" /\ CurrentSet(sel.current)) =>
        /\ LastBestScore - LastCurrentScore >= HysteresisMargin =>
              /\ last.result.score = LastBestScore
              /\ \E i \in 1..Len(sel.personas) :
                    /\ sel.personas[i] = last.result.pid
                    /\ LastScores[i] = LastBestScore
        /\ (/\ sel.current = Some("trickster")
            /\ InList("temple_guide", sel.personas)
            /\ last.drives = ("teaching" :> 90)
            /\ last.state = ("energy" :> 60)
            /\ last.env = EmptyMap
            /\ last.culture = EmptyMap
            /\ \A i \in 1..Len(sel.personas) : last.cooldown_penalty[i] = 0) =>
              /\ LastBestScore - LastCurrentScore > HysteresisMargin
              /\ last.result.pid = "temple_guide"
              /\ last.result.components.drive_compat = 72 * Scale

\* C13's case: the trickster is current and allowed, the select of the
\* example has been made and has returned temple_guide, 0.3525 ahead.
C13_Witness ==
    /\ last.op = "select"
    /\ sel.current = Some("trickster")
    /\ sel.personas = <<"temple_guide", "trickster">>
    /\ last.drives = ("teaching" :> 90)
    /\ last.state = ("energy" :> 60)
    /\ last.env = EmptyMap
    /\ last.culture = EmptyMap
    /\ \A i \in 1..Len(sel.personas) : last.cooldown_penalty[i] = 0
    /\ last.result.pid = "temple_guide"
    /\ last.result.components.drive_compat = 72 * Scale
    /\ LastBestScore - LastCurrentScore = 126900

\* C14: no Agent is set up with an allowed-persona set that is empty or shares
\* no id with the catalog (its setup fails), so select never runs on an empty
\* candidate list.
C14_EmptyAllowedFailsAtSetup ==
    /\ sel.personas # <<>>
    /\ last.op = "decide_action" => last.raised = ""

\* the move rule of decide_action, on the agent as the last call left it
LastMoveRule == astate.boredom > 70 /\ Get(dm.pressures, "curiosity", 0) >= 60

\* the current persona is one of the agent's personas and prefers greeting or
\* teaching
LastPersonaSpeaks ==
    /\ sel.current # None
    /\ InList(sel.current[1], sel.personas)
    /\ \/ "greeting" \in Catalog[sel.current[1]].preferred_actions
       \/ "teaching" \in Catalog[sel.current[1]].preferred_actions

\* the speak rule of decide_action, likewise
LastSpeakRule == Get(dm.pressures, "social", 0) >= 60 /\ LastPersonaSpeaks

\* C15: for an agent with at least one allowed persona (of the catalog),
\* decide_action never fails: it returns an action whose type is observe,
\* speak or move, is observe when neither the speak rule nor the move rule
\* applies, and whose persona is the agent's current persona after the call.
C15_DecideActionNeverFails ==
    (last.op = "decide_action" /\ sel.personas # <<>>) =>
        /\ last.raised = ""
        /\ last.action.type \in {"observe", "speak", "move"}
        /\ (~LastSpeakRule /\ ~LastMoveRule) => last.action.type = "observe"
        /\ last.action.persona = sel.current

\* C15's case: the agent started on a persona that is not one of its own,
\* decide_action has switched it to the observer and, the social drive being
\* dominant but the observer not a speaker, has answered observe.
C15_Witness ==
    /\ last.op = "decide_action"
    /\ last.raised = ""
    /\ sel.switch_count = 1
    /\ sel.current = Some("observer")
    /\ "social" \in last.action.drives
    /\ ~LastMoveRule
    /\ last.action = [persona |-> Some("observer"), type |-> "observe",
                      drives |-> last.action.drives]

\* C16: decide_action returns type speak when the teaching drive is dominant
\* (pressure >= 0.6), the current persona prefers greeting or teaching and
\* the move rule does not apply, also when the social drive is not dominant.
C16_TeachingDominanceSpeaks ==
    (/\ last.op = "decide_action"
     /\ last.raised = ""
     /\ Get(dm.pressures, "teaching", 0) >= 60
     /\ LastPersonaSpeaks
     /\ ~LastMoveRule) => last.action.type = "speak"

\* C16 as amended: decide_action returns type speak when the social drive is
\* dominant (pressure >= 0.6), the current persona is one of the agent's
\* personas and prefers greeting or teaching, and the move rule does not
\* apply; when the social drive is not dominant and the move rule does not
\* apply the type is observe, a dominant teaching drive notwithstanding.
C16_SocialDominanceSpeaks ==
    (last.op = "decide_action" /\ last.raised = "" /\ ~LastMoveRule) =>
        /\ (Get(dm.pressures, "social", 0) >= 60 /\ LastPersonaSpeaks) =>
              last.action.type = "speak"
        /\ Get(dm.pressures, "social", 0) < 60 => last.action.type = "observe"

\* C16's case: the teaching drive is dominant, the social drive is not, the
\* current persona is the temple guide, and decide_action has answered
\* observe.
C16_Witness ==
    /\ last.op = "decide_action"
    /\ last.raised = ""
    /\ dm.pressures["teaching"] >= 60
    /\ dm.pressures["social"] < 60
    /\ sel.current = Some("temple_guide")
    /\ LastPersonaSpeaks
    /\ ~LastMoveRule
    /\ last.action.type = "observe"
    /\ "teaching" \in last.action.drives

\* C17: perceive of a chat-type event lowers the social pressure by exactly
\* 0.2, not below 0, and leaves every other drive pressure, the current
\* persona, the cooldowns and switch_count unchanged; perceive of any other
\* event leaves all drive pressures unchanged.
C17_PerceiveChatSatisfiesSocial ==
    [][last'.op = "perceive" =>
        IF Get(last'.event, "type", "") = "chat"
        THEN /\ dm'.pressures["social"] = Clamp01(dm.pressures["social"] - 20)
             /\ DOMAIN dm'.pressures = DOMAIN dm.pressures
             /\ \A d \in DOMAIN dm.pressures \ {"social"} :
                   dm'.pressures[d] = dm.pressures[d]
             /\ sel'.current = sel.current
             /\ sel'.cooldowns = sel.cooldowns
             /\ sel'.switch_count = sel.switch_count
        ELSE dm'.pressures = dm.pressures
    ]_vars

\* C17's case: three chat events in a row have taken the social pressure
\* from 0.5 to 0.3, to 0.1 and, held by the floor, to 0, the other drives
\* staying where they were.
C17_Witness ==
    /\ last.op = "perceive"
    /\ last.event = ("type" :> "chat")
    /\ steps = 3
    /\ dm.pressures["social"] = 0
    /\ \A d \in DOMAIN dm.pressures \ {"social"} : dm.pressures[d] = 50
    /\ sel.switch_count = 0

\* C19: after a switch from persona A to persona B, a select shortly
\* afterwards applies a strictly positive cooldown penalty to A, the persona
\* that was just left.
C19_CooldownOnPersonaLeft ==
    [][(/\ last.op = "switch_to"
        /\ last.from # None
        /\ last.from # Some(last.persona_id)
        /\ InList(last.from[1], sel.personas)
        /\ last'.op = "select") =>
        \E i \in 1..Len(sel.personas) :
            /\ sel.personas[i] = last.from[1]
            /\ last'.cooldown_penalty[i] > 0
    ]_vars

\* the culture records of the engine, and every part of them
RecordSets == {[id \in d |-> records[id]] : d \in SUBSET DOMAIN records}

\* the culture_fit component score_persona gives a persona when its culture
\* argument is get_culture_context(location) on the records recs
CultureFitFromContext(recs, location, pid) ==
    ScoreComponents(Catalog[pid], EmptyMap, EmptyMap, EmptyMap,
                    GetCultureContext(recs, location), 0).culture_fit

\* C20: culture records feed back into persona scoring: once the engine
\* holds a record that get_culture_context shows, there are two sets of
\* culture records at a location for which the same persona, with the same
\* drives, state and env, gets a different culture_fit component.
C20_CultureFeedsBackIntoScoring ==
    (\E id \in DOMAIN records : records[id].strength >= 30) =>
        \E r1, r2 \in RecordSets, pid \in DOMAIN Catalog :
            \E id \in DOMAIN records :
                CultureFitFromContext(r1, records[id].scope["location"], pid)
                    # CultureFitFromContext(r2, records[id].scope["location"], pid)

\* C21: observe_violation with fewer than 2 negative reactions leaves the
\* whole record set unchanged; with 2 or more it creates the TABOO record of
\* (location, behavior) at strength 0.4 when there is none, and otherwise
\* raises its strength by 0.1, not above 1.0; no other record changes.
C21_ViolationCreatesOrReinforcesTaboo ==
    [][last'.op = "observe_violation" =>
        LET id == "taboo:" \o last'.location \o ":" \o last'.behavior
        IN  IF last'.negative_reactions < 2 THEN records' = records
            ELSE /\ DOMAIN records' = DOMAIN records \cup {id}
                 /\ \A o \in DOMAIN records \ {id} : records'[o] = records[o]
                 /\ records'[id].kind = "taboo"
                 /\ records'[id].scope = ("location" :> last'.location)
                 /\ records'[id].strength =
                       IF id \notin DOMAIN records THEN 40
                       ELSE IF records[id].strength + 10 > Scale THEN Scale
                            ELSE records[id].strength + 10
    ]_vars

\* C21's case: a taboo at 0.95 has been reinforced and stands at 1.0, held
\* by the cap, the norm beside it untouched.
C21_Witness ==
    /\ last.op = "observe_violation"
    /\ last.negative_reactions = 2
    /\ steps = 1
    /\ records["taboo:temple:mockery"].strength = Scale
    /\ records["norm:temple:bow"].strength = 35

\* the list of a context that holds the records of a kind
ListOfKind(context, kind) ==
    CASE kind = "norm"   -> context.norms
      [] kind = "ritual" -> context.rituals
      [] kind = "taboo"  -> context.taboos

\* C22: get_culture_context(location) returns exactly the summaries of the
\* records whose scope location is the given one and whose strength is at
\* least 0.3, each in the list of its own kind, never a record of another
\* location, and it changes no record.
C22_ContextShowsLocalStrongRecords ==
    [][last'.op = "get_culture_context" =>
        /\ records' = records
        /\ behavior_counts' = behavior_counts
        /\ last'.result.location = last'.location
        /\ \A id \in DOMAIN records :
              (records[id].scope["location"] = last'.location
               /\ records[id].strength >= 30)
                  => records[id].summary \in ListOfKind(last'.result, records[id].kind)
        /\ \A kind \in {"norm", "ritual", "taboo"} :
              \A summary \in ListOfKind(last'.result, kind) :
                  \E id \in DOMAIN records :
                      /\ records[id].summary = summary
                      /\ records[id].kind = kind
                      /\ records[id].scope["location"] = last'.location
                      /\ records[id].strength >= 30
    ]_vars

\* C22's case: the temple holds a taboo at 0.4 and a norm at 0.21, the plaza
\* a ritual; the context of the temple shows the taboo alone.
C22_Witness ==
    /\ last.op = "get_culture_context"
    /\ last.location = "temple"
    /\ "ritual:plaza:chant" \in DOMAIN records
    /\ "norm:temple:bow" \in DOMAIN records
    /\ records["norm:temple:bow"].strength = 21
    /\ "taboo:temple:mockery" \in DOMAIN records
    /\ records["taboo:temple:mockery"].strength = 40
    /\ last.result = [norms |-> {}, rituals |-> {},
                      taboos |-> {"mockery is frowned upon in temple"},
                      location |-> "temple"]

\* C26: in every state reached by observe_behavior, observe_ritual,
\* observe_violation and tick(hours >= 0), every stored culture record has
\* its strength within [0.2, 1.0], and a tick never raises the strength of a
\* record, nor adds one.
C26_StrengthBoundsAndDecay ==
    [][/\ \A id \in DOMAIN records' :
             20 <= records'[id].strength /\ records'[id].strength <= Scale
       /\ last'.op = "culture_tick" =>
             \A id \in DOMAIN records' :
                 /\ id \in DOMAIN records
                 /\ records'[id].strength <= records[id].strength
    ]_vars

\* C26's case: a taboo reinforced up to the cap, 1.0, has been ticked down to
\* 0.81, and the same tick has taken the norm from 0.35 below 0.2 and out of
\* the records.
C26_Witness ==
    /\ last.op = "culture_tick"
    /\ last.hours = 19
    /\ last.before = ("norm:temple:bow" :> 35) @@ ("taboo:temple:mockery" :> Scale)
    /\ DOMAIN records = {"taboo:temple:mockery"}
    /\ records["taboo:temple:mockery"].strength = 81

\* the orders in which a loop can visit the agents
OrdersOf(ids) ==
    {o \in [1..Cardinality(ids) -> ids] : \A i, j \in DOMAIN o : o[i] = o[j] => i = j}

\* what the claim names of an agent: pressures, current persona, cooldowns
\* and switch_count
DrivesAndPersona(agent) ==
    <<agent.dm.pressures, agent.sel.current, agent.sel.cooldowns,
      agent.sel.switch_count>>

\* C24: tick, perceive and decide_action on one agent leave every other
\* agent's drive pressures, current persona, cooldowns and switch_count as
\* they were, and World.tick leaves the agents as a visit in any other order
\* would
C24_AgentsIndependent ==
    [][/\ last'.op \in {"agent_tick", "perceive", "decide_action"} =>
             \A other \in DOMAIN world.agents \ {last'.agent_id} :
                 /\ other \in DOMAIN world'.agents
                 /\ DrivesAndPersona(world'.agents[other]) =
                        DrivesAndPersona(world.agents[other])
       /\ last'.op = "world_tick" =>
             \A o \in OrdersOf(DOMAIN world.agents) :
                 world'.agents = WorldTickAgents(world.agents, o, last'.minutes)
    ]_vars

\* kavi_dev has ticked twice, kalrav_bhairav has perceived a chat in between
\* and is otherwise as spawned; then the world has ticked both
C24_Witness ==
    /\ steps = 4
    /\ last.op = "world_tick" /\ last.minutes = 60
    /\ world.agents["kavi_dev"].astate.energy = 0
    /\ world.agents["kavi_dev"].astate.boredom = Scale
    /\ world.agents["kalrav_bhairav"].astate.energy = 70 - 60
    /\ world.agents["kalrav_bhairav"].dm.pressures["social"] =
          50 - 20 + DefaultDrives["social"].decay_rate * 60
    /\ world.agents["kalrav_bhairav"].dm.pressures["social"] <
          world.agents["kavi_dev"].dm.pressures["social"]

\* C25: two ticks in a row give what one tick of the sum gives: the agent's
\* pressures, energy and boredom after Agent.tick(a) and Agent.tick(b) are
\* those of Agent.tick(a + b), and the records after CultureEngine.tick(h1)
\* and tick(h2) are those of tick(h1 + h2)
C25_TicksCompose ==
    [][/\ (/\ last.op = "agent_tick" /\ last'.op = "agent_tick"
           /\ last.agent_id = last'.agent_id) =>
             LET once  == AgentTicked(last.before, last.elapsed + last'.elapsed)
                 twice == world'.agents[last'.agent_id]
             IN  /\ twice.dm.pressures = once.dm.pressures
                 /\ twice.astate.energy = once.astate.energy
                 /\ twice.astate.boredom = once.astate.boredom
       /\ (last.op = "culture_tick" /\ last'.op = "culture_tick") =>
             LET hours == last.hours + last'.hours
                 kept  == {id \in DOMAIN last.before :
                              Max(0, last.before[id] - 1 * hours) >= 20}
             IN  /\ DOMAIN records' = kept
                 /\ \A id \in kept :
                        records'[id].strength = last.before[id] - 1 * hours
    ]_vars

\* kavi_dev ticked 10 and 40 minutes, then the engine ticked 2 and 19 hours:
\* the norm at 0.35 is archived, the taboo at 0.95 is left at 0.74
C25_Witness ==
    /\ steps = 4
    /\ world.agents["kavi_dev"].astate.energy = 70 - 50
    /\ world.agents["kavi_dev"].astate.boredom = Scale
    /\ world.agents["kalrav_bhairav"] = DemoWorld.agents["kalrav_bhairav"]
    /\ last.op = "culture_tick" /\ last.hours = 19
    /\ last.before = ("norm:temple:bow" :> 33) @@ ("taboo:temple:mockery" :> 93)
    /\ DOMAIN records = {"taboo:temple:mockery"}
    /\ records["taboo:temple:mockery"].strength = 74

\* C27: decide_action, the selector having picked another persona than the
\* current one, leaves current at that persona, its cooldown at the time of
\* the switch and switch_count one higher; having kept the current persona it
\* leaves the three as they were; and so does select on its own
C27_DecideActionSwitchFrame ==
    [][/\ (last'.op = "decide_action" /\ last'.raised = "") =>
             IF Some(last'.picked) # sel.current
             THEN /\ sel'.current = Some(last'.picked)
                  /\ last'.picked \in DOMAIN sel'.cooldowns
                  /\ sel'.cooldowns[last'.picked] = now'
                  /\ \A pid \in DOMAIN sel'.cooldowns \ {last'.picked} :
                         pid \in DOMAIN sel.cooldowns
                         /\ sel'.cooldowns[pid] = sel.cooldowns[pid]
                  /\ sel'.switch_count = sel.switch_count + 1
             ELSE /\ sel'.current = sel.current
                  /\ sel'.cooldowns = sel.cooldowns
                  /\ sel'.switch_count = sel.switch_count
       /\ last'.op = "select" =>
             /\ sel'.current = sel.current
             /\ sel'.cooldowns = sel.cooldowns
             /\ sel'.switch_count = sel.switch_count
    ]_vars

\* the first call of decide_action has switched, the clock having moved
\* between select and switch_to
C27_Witness ==
    /\ steps = 1
    /\ last.op = "decide_action" /\ last.raised = ""
    /\ sel.switch_count = 1
    /\ sel.current = Some(last.picked)
    /\ now = StartTime + 1
    /\ sel.cooldowns = (last.picked :> now)

\* a sequence that has only grown at its end
IsPrefix(before, after) ==
    /\ Len(before) <= Len(after)
    /\ SubSeq(after, 1, Len(before)) = before

\* C23: a location's conversation is created empty the first time add_message,
\* should_respond or get_recent_context names the location, and from then on
\* no call removes the conversation or removes, reorders or rewrites a stored
\* message: each message sequence only grows at its end
C23_LazyCreationAppendOnly ==
    [][/\ \A location \in DOMAIN conversations :
             /\ location \in DOMAIN conversations'
             /\ IsPrefix(conversations[location].messages,
                         conversations'[location].messages)
       /\ last'.op \in {"add_message", "should_respond", "get_recent_context"} =>
             /\ last'.location \in DOMAIN conversations'
             /\ last'.location \notin DOMAIN conversations =>
                    /\ conversations'[last'.location].messages =
                           IF last'.op = "add_message" THEN <<last'.message>>
                           ELSE <<>>
                    /\ DOMAIN conversations'[last'.location].participants \subseteq
                           IF last'.op = "add_message"
                           THEN {last'.message.speaker_id} ELSE {}
    ]_vars

\* two messages are stored in the temple, then get_recent_context names the
\* plaza for the first time
C23_Witness ==
    /\ steps = 3
    /\ last.op = "get_recent_context" /\ last.location = "plaza"
    /\ DOMAIN conversations = {"temple", "plaza"}
    /\ conversations["plaza"].messages = <<>>
    /\ last.result = <<>>
    /\ Len(conversations["temple"].messages) = 2
    /\ conversations["temple"].messages[1].id = 1
    /\ conversations["temple"].messages[2].id = 2

\* C28: should_respond on a non-empty conversation whose last speaker is
\* another agent returns the urgency clamp01((0.3 * social + (0.4 * teaching
\* if the last message holds a '?' else 0)) * energy * m + noise), m being 0.5
\* if the agent spoke less than 30 s ago, 1.2 if it has been silent for more
\* than 120 s or never spoke, 1 otherwise, and noise a value in [-0.1, 0.1]
C28_UrgencyFormula ==
    last.op = "should_respond" =>
        LET conv == conversations[last.location]
            n    == Len(conv.messages)
        IN  (n > 0 /\ conv.messages[n].speaker_id # last.agent_id) =>
                LET social   == Get(last.agent_drives, "social", 50)
                    teaching == Get(last.agent_drives, "teaching", 50)
                    energy   == Get(last.agent_state, "energy", 50)
                    asked    == conv.messages[n].content \in QuestionContents
                    spoke    == last.agent_id \in DOMAIN conv.participants
                    silent   == now - conv.participants[last.agent_id]
                    m        == IF spoke /\ silent < 30 THEN 5
                                ELSE IF ~spoke \/ silent > 120 THEN 12
                                ELSE 10
                    raw      == (30 * social + (IF asked THEN 40 * teaching ELSE 0))
                                    * energy * m
                                + last.noise * (UrgencyUnit \div Scale)
                IN  /\ 0 - 10 <= last.noise /\ last.noise <= 10
                    /\ last.result.urgency =
                           IF raw < 0 THEN 0
                           ELSE IF raw > UrgencyUnit THEN UrgencyUnit ELSE raw

\* kalrav spoke, kavi asked, and kalrav is asked within 30 s of speaking:
\* (0.3 * 0.8 + 0.4 * 0.6) * 1.0 * 0.5 + 0.1 = 0.34
C28_Witness ==
    /\ steps = 3
    /\ last.op = "should_respond" /\ last.agent_id = "kalrav_bhairav"
    /\ last.location = "temple"
    /\ Len(conversations["temple"].messages) = 2
    /\ conversations["temple"].messages[2].speaker_id = "kavi_dev"
    /\ conversations["temple"].messages[2].content = "why?"
    /\ conversations["temple"].participants["kalrav_bhairav"] = now
    /\ last.agent_drives = ("social" :> 80) @@ ("teaching" :> 60)
    /\ last.agent_state = ("energy" :> 100)
    /\ last.noise = 10
    /\ last.result.urgency = 34 * (UrgencyUnit \div Scale)
    /\ last.result.reason = "social_drive_teaching_opportunity_recently_spoke"

\* C29: for any two urgencies u1 > u2 in [0,1] the delay get_response_delay
\* returns for u1 is never longer than the delay it returns for u2, and every
\* returned delay is at least min_delay
C29_HigherUrgencyNeverSlower ==
    last.op = "get_response_delay" =>
        /\ last.result >= MinResponseDelay
        /\ \A u2 \in UrgencyInputs, noise2 \in DelayNoiseInputs :
               last.urgency > u2 => last.result <= GetResponseDelay(u2, noise2)

\* C29 as amended: for any two urgencies u1 > u2 in [0,1] and the same draw
\* of the noise the delay returned for u1 is never longer than the delay
\* returned for u2; with different draws it is longer by at most 1 s, the
\* spread of the noise; and every returned delay is at least min_delay
C29_HigherUrgencyNeverSlowerSameNoise ==
    last.op = "get_response_delay" =>
        /\ last.result >= MinResponseDelay
        /\ \A u2 \in UrgencyInputs :
               last.urgency > u2 =>
                   /\ last.result <= GetResponseDelay(u2, last.noise)
                   /\ \A noise2 \in DelayNoiseInputs :
                          last.result <= GetResponseDelay(u2, noise2) + 1 * Scale

\* the delay for urgency 0.6 with the noise at +0.5: 3.1 s, longer than the
\* 2.5 s that urgency 0.5 gets with the noise at -0.5
C29_Witness ==
    /\ last.op = "get_response_delay"
    /\ last.urgency = 60 /\ last.noise = 50
    /\ last.result = 310
    /\ GetResponseDelay(50, 0 - 50) = 250
    /\ GetResponseDelay(50, 50) = 350

\* C30: get_recent_context(location, limit) returns exactly the last
\* min(limit, n) of the n messages stored at the location, oldest first, for
\* every limit >= 0 (no message for limit = 0), and does not alter the stored
\* messages
C30_RecentContextLastMessages ==
    [][last'.op = "get_recent_context" =>
          LET stored == conversations'[last'.location].messages
              n      == Len(stored)
              k      == Min(last'.limit, n)
          IN  /\ last'.limit >= 0
              /\ Len(last'.result) = k
              /\ \A i \in 1..k :
                     last'.result[i] = ContextEntry(stored[n - k + i])
              /\ last'.location \in DOMAIN conversations =>
                     conversations[last'.location].messages = stored
    ]_vars

\* C31: once 5 minutes have passed without a new message the location is no
\* longer active, and should_respond then answers as for a location without
\* a conversation: an agent with social pressure > 0.7 gets (True, 0.6,
\* "high_social_drive_initiate"), the sender of the last message included
C31_StaleConversationInitiates ==
    last.op = "should_respond" =>
        LET conv == conversations[last.location]
        IN  (/\ ~IsActive(conv, now)
             /\ Get(last.agent_drives, "social", 50) > 70) =>
                last.result = [should_speak |-> TRUE,
                               urgency |-> 6 * (UrgencyUnit \div 10),
                               reason |-> "high_social_drive_initiate"]

\* the promotion threshold on the counts of a key: 5 observations by 2 agents
ThresholdMet(counts, key) ==
    /\ key \in DOMAIN counts
    /\ SumValues(counts[key]) >= 5
    /\ Cardinality(DOMAIN counts[key]) >= 2

\* C32: the observe_behavior call that first meets the promotion threshold
\* creates the NORM record at 0.4 with its event id as the only evidence;
\* each later observe_behavior for the key, the record existing, raises the
\* strength by 0.1, capped at 1.0, and appends its event id to evidence_ids
C32_NormCreatedThenReinforced ==
    [][last'.op = "observe_behavior" =>
          LET key == last'.location \o ":" \o last'.behavior
              id  == "norm:" \o key
          IN  /\ (ThresholdMet(behavior_counts', key)
                    /\ ~ThresholdMet(behavior_counts, key)) =>
                     /\ id \notin DOMAIN records
                     /\ id \in DOMAIN records'
                     /\ records'[id].kind = "norm"
                     /\ records'[id].strength = 40
                     /\ records'[id].evidence_ids = <<last'.event_id>>
              /\ (ThresholdMet(behavior_counts, key) /\ id \in DOMAIN records) =>
                     /\ id \in DOMAIN records'
                     /\ records'[id].strength =
                            Min(Scale, records[id].strength + 10)
                     /\ records'[id].evidence_ids =
                            Append(records[id].evidence_ids, last'.event_id)
    ]_vars

\* the norm at 0.95 after eleven observations has been observed once more:
\* it is at the cap, with the twelfth event appended to its evidence
C32_Witness ==
    /\ steps = 1
    /\ last.op = "observe_behavior" /\ last.event_id = 12
    /\ "norm:temple:bow" \in DOMAIN records
    /\ records["norm:temple:bow"].strength = Scale
    /\ records["norm:temple:bow"].evidence_ids = <<5, 6, 7, 8, 9, 10, 11, 12>>

\* C38: behaviour counters are never reset or pruned, not even when a record
\* is archived; once a key has met the promotion threshold, every later
\* observe_behavior for the key ends with a NORM record for it, so one
\* observation after decay deleted the norm recreates it at 0.4
C38_CountersKeptNormRecreated ==
    [][/\ \A key \in DOMAIN behavior_counts :
             /\ key \in DOMAIN behavior_counts'
             /\ \A agent_id \in DOMAIN behavior_counts[key] :
                    /\ agent_id \in DOMAIN behavior_counts'[key]
                    /\ behavior_counts'[key][agent_id] >= behavior_counts[key][agent_id]
       /\ last'.op = "observe_behavior" =>
             LET key == last'.location \o ":" \o last'.behavior
                 id  == "norm:" \o key
             IN  ThresholdMet(behavior_counts, key) =>
                     /\ id \in DOMAIN records'
                     /\ records'[id].kind = "norm"
                     /\ id \notin DOMAIN records =>
                            /\ records'[id].strength = 40
                            /\ records'[id].evidence_ids = <<last'.event_id>>
    ]_vars

\* the norm at 0.21 was archived by tick(2); the sixth observation of the
\* key has recreated it at 0.4
C38_Witness ==
    /\ steps = 2
    /\ last.op = "observe_behavior" /\ last.event_id = 6
    /\ last.location = "temple" /\ last.behavior = "bow"
    /\ DOMAIN records = {"norm:temple:bow"}
    /\ records["norm:temple:bow"].strength = 40
    /\ records["norm:temple:bow"].evidence_ids = <<6>>
    /\ records["norm:temple:bow"].last_observed = StartTime

\* the first persona, in the catalog's order, among those of highest score
FirstOfHighest ==
    CHOOSE i \in 1..Len(sel.personas) :
        /\ \A j \in 1..Len(sel.personas) : LastScores[j] <= LastScores[i]
        /\ \A j \in 1..(i - 1) : LastScores[j] < LastScores[i]

\* C33: when several personas share the highest total score, select ranks
\* first the one that comes first in the catalog's iteration order: it is
\* returned whenever no current persona is set, and with a current persona
\* the result is that one or the current one
C33_TiesToFirstInCatalogOrder ==
    (last.op = "select" /\ last.result.raised = "") =>
        /\ ~CurrentSet(sel.current) =>
               /\ last.result.pid = sel.personas[FirstOfHighest]
               /\ last.result.score = LastScores[FirstOfHighest]
        /\ CurrentSet(sel.current) =>
               last.result.pid \in {sel.personas[FirstOfHighest], sel.current[1]}

\* no current persona, two personas share the highest score, and select has
\* returned the one that comes first
C33_Witness ==
    /\ last.op = "select" /\ last.result.raised = ""
    /\ ~CurrentSet(sel.current)
    /\ \E j \in 1..Len(sel.personas) :
          /\ j > FirstOfHighest
          /\ LastScores[j] = LastScores[FirstOfHighest]
    /\ last.result.pid = sel.personas[FirstOfHighest]

\* C34: decide_action returns type move exactly when boredom > 0.7 and the
\* curiosity drive is dominant (pressure >= 0.6); when the speak rule applies
\* as well the move rule wins
C34_MoveRule ==
    (last.op = "decide_action" /\ last.raised = "") =>
        /\ last.action.type = "move" <=> LastMoveRule
        /\ (LastMoveRule /\ LastSpeakRule) => last.action.type = "move"
        /\ ~LastMoveRule => last.action.type \in {"speak", "observe"}

\* after 40 minutes the agent is bored (0.8) and curious (0.9), its social
\* drive is dominant and its persona prefers greeting: the type is move
C34_Witness ==
    /\ last.op = "decide_action" /\ last.raised = ""
    /\ astate.boredom = 80
    /\ dm.pressures["curiosity"] = 90
    /\ dm.pressures["social"] = 90
    /\ LastSpeakRule
    /\ sel.current = Some("temple_guide")
    /\ last.action.type = "move"

\* C37: under any sequence of Agent.tick (elapsed >= 0), perceive and
\* decide_action the agent's energy never grows and stays within [0,1], and
\* its boredom stays within [0,1]
C37_EnergyNeverRestored ==
    [][/\ astate'.energy <= astate.energy
       /\ 0 <= astate'.energy /\ astate'.energy <= Scale
       /\ 0 <= astate'.boredom /\ astate'.boredom <= Scale
    ]_vars

\* two ticks of 40 minutes: the energy has met its floor and the boredom its
\* cap
C37_Witness ==
    /\ steps = 2
    /\ last.op = "agent_tick" /\ last.elapsed = 40
    /\ astate.energy = 0
    /\ astate.boredom = Scale

\* C35: with drives, state, env and culture held fixed and the current
\* persona among the allowed ones, a decide_action call that switches the
\* persona is never followed by a switch in the next decide_action call,
\* however much time passes between the two
C35_NoSwitchAfterSwitch ==
    [][(/\ last.op = "decide_action" /\ last.switched
        /\ last.from # None /\ InList(last.from[1], sel.personas)
        /\ last'.op = "decide_action" /\ last'.n = last.n + 1) =>
            /\ ~last'.switched
            /\ sel'.current = sel.current
            /\ sel'.switch_count = sel.switch_count
    ]_vars

\* the first call switched, 2520 s and more went by, the second call has
\* kept the persona
C35_Witness ==
    /\ last.op = "decide_action" /\ last.n = 2 /\ ~last.switched
    /\ sel.switch_count >= 1
    /\ sel.current # None
    /\ sel.current[1] \in DOMAIN sel.cooldowns
    /\ sel.cooldowns[sel.current[1]] >= StartTime
    /\ now - sel.cooldowns[sel.current[1]] >= 2520

\* C36: when every agent adds a message at a location only after a
\* should_respond call of its own, made after its previous message there,
\* answered True, no conversation holds two consecutive messages of the same
\* speaker, whatever the interleaving of the agents; an agent alone at a
\* location speaks at most once
C36_NoTwoInARow ==
    \A location \in DOMAIN conversations :
        LET messages == conversations[location].messages
        IN  /\ \A i \in 1..(Len(messages) - 1) :
                   messages[i].speaker_id # messages[i + 1].speaker_id
            /\ Cardinality({messages[i].speaker_id : i \in 1..Len(messages)}) = 1
                   => Len(messages) = 1

\* both agents were answered True on the empty temple, both spoke, and the
\* first was answered True again and spoke a second time
C36_Witness ==
    /\ steps = 6
    /\ "temple" \in DOMAIN conversations
    /\ Len(conversations["temple"].messages) = 3
    /\ conversations["temple"].messages[1].speaker_id = "kavi_dev"
    /\ conversations["temple"].messages[2].speaker_id = "kalrav_bhairav"
    /\ conversations["temple"].messages[3].speaker_id = "kavi_dev"
    /\ conversations["temple"].messages[1].id = 3
    /\ granted = {}

\* how often x is in a list
RECURSIVE CountIn(_, _)
CountIn(x, list) ==
    IF list = <<>> THEN 0
    ELSE (IF Head(list) = x THEN 1 ELSE 0) + CountIn(x, Tail(list))

\* every agent that has a location is listed once in the agents list of that
\* location and in no other list
ListedWhereLocated(w) ==
    \A agent_id \in DOMAIN w.agents :
        w.agents[agent_id].location # None =>
            \A location_id \in DOMAIN w.locations :
                CountIn(agent_id, w.locations[location_id].agents) =
                    IF w.agents[agent_id].location = Some(location_id) THEN 1 ELSE 0

\* C39: after any sequence of spawn_agent and move_agent calls every agent
\* that has a location is listed exactly once in the agents list of that
\* location and in no other location's list; a move to an unknown location
\* or of an unknown agent changes nothing
C39_ListedWhereLocated ==
    [][/\ ListedWhereLocated(world')
       /\ (/\ last'.op = "move_agent"
           /\ \/ last'.agent_id \notin DOMAIN world.agents
              \/ last'.location_id \notin DOMAIN world.locations) =>
             world' = world
    ]_vars

====
